---- MODULE Spec2Model ----
(***************************************************************************)
(* bitcoin-backup: passphrase encryption of structured key backups.        *)
(*                                                                         *)
(* The model follows src/src/index.ts (encryptBackup, decryptBackup,       *)
(* isValidPayload) and the crypto module src/unnamed/part_001 (deriveKey,  *)
(* encryptData, decryptData).  PBKDF2 and AES-GCM are modelled             *)
(* symbolically: a derived key is the triple it was derived from, a        *)
(* ciphertext byte names the plaintext unit it hides, and the 16 tag bytes *)
(* bind key, IV and the whole plaintext, so that decryption authenticates  *)
(* exactly when key, IV and ciphertext are the ones used at encryption.    *)
(***************************************************************************)
EXTENDS Integers, Sequences, FiniteSets, TLC

VARIABLES
    encoded,   \* the encoded backup string at hand (a sequence of base64 characters)
    origin,    \* ghost: how `encoded` came to be (who produced it, from what)
    enc,       \* the latest encryptBackup call
    dec,       \* the latest decryptBackup / decryptData call and its position
    ops,       \* ghost: the cryptographic operations performed by the current call
    console,   \* what the current call wrote with console.error
    subject,   \* the object handed to the type guards and validators
    verdict,   \* what the guards and validators said of `subject`
    issued,    \* the calls of encryptBackup that returned, with their results
    upg,       \* the run of the CLI's upg command on the file `encoded`
    calls      \* the invocations in flight at once, each with its own locals

vars == <<encoded, origin, enc, dec, ops, console, subject, verdict, issued, upg,
          calls>>

\* The variables of the codec calls, and the others.
codecVars == <<encoded, origin, enc, dec, ops, console>>
guardVars == <<subject, verdict>>
otherVars == <<guardVars, issued, upg, calls>>

(***************************************************************************)
(* Program constants.                                                      *)
(***************************************************************************)
RECOMMENDED_PBKDF2_ITERATIONS == 600000
LEGACY_PBKDF2_ITERATIONS == 100000
SALT_LENGTH_BYTES == 16
IV_LENGTH_BYTES == 12
\* AES-GCM's default tag length (128 bits) in bytes; part of encryptedContent.
GCM_TAG_LENGTH_BYTES == 16
\* encryptBackup's minimum passphrase length.
MIN_PASSPHRASE_LENGTH == 8
\* An iteration count that is neither of the two named ones (the tests use 1000).
CUSTOM_ITERATIONS == 1000

(***************************************************************************)
(* Bounds of the model.                                                    *)
(***************************************************************************)
\* The longest explicit array of candidate iteration counts.
MaxCandidates == 2

(***************************************************************************)
(* JavaScript values.  Every value carries its type tag t.                 *)
(***************************************************************************)
S(v) == [t |-> "string", v |-> v]
N(v) == [t |-> "number", v |-> v]
Undefined == [t |-> "undefined"]
Null == [t |-> "null"]
Obj(o) == [t |-> "object", o |-> o]
Num(n) == [t |-> "number", n |-> n]
Arr(a) == [t |-> "array", a |-> a]
EmptyObject == [k \in {} |-> Undefined]

\* typeof x
TypeOf(x) == IF x.t \in {"null", "array"} THEN "object" ELSE x.t

\* JavaScript truthiness (!x is ~Truthy(x)).
Truthy(x) ==
    CASE x.t = "undefined" -> FALSE
      [] x.t = "null" -> FALSE
      [] x.t = "string" -> x.v # ""
      [] x.t = "number" -> x.v \notin {"0", "NaN"}
      [] OTHER -> TRUE

\* 'k' in p
In(k, p) == k \in DOMAIN p

\* 'k' in p && typeof p.k === 'string'
IsStringField(k, p) == In(k, p) /\ TypeOf(p[k]) = "string"

(***************************************************************************)
(* Payload validation at encryption (index.ts) and the classification of   *)
(* the decrypted JSON (crypto module).  p is the object's field map.       *)
(***************************************************************************)
isValidPayload(payload) ==
    IF ~Truthy(payload) \/ TypeOf(payload) # "object" \/ payload.t # "object"
    THEN FALSE
    ELSE LET p == payload.o IN
        \/ /\ IsStringField("xprv", p)
           /\ IsStringField("ids", p)
           /\ IsStringField("mnemonic", p)
        \/ /\ IsStringField("rootPk", p)
           /\ IsStringField("ids", p)
           /\ ~In("xprv", p)
        \/ /\ IsStringField("wif", p)
           /\ IsStringField("id", p)
        \/ /\ IsStringField("wif", p)
           /\ ~In("id", p)
           /\ ~In("xprv", p)
           /\ ~In("rootPk", p)
        \/ /\ IsStringField("ordPk", p)
           /\ IsStringField("payPk", p)
           /\ IsStringField("identityPk", p)

\* An if-chain without the branch for wif with id.
IsKnownStructureNoMember(parsedJson) ==
    /\ TypeOf(parsedJson) = "object"
    /\ parsedJson.t = "object"
    /\ LET p == parsedJson.o IN
        \/ In("xprv", p) /\ In("ids", p) /\ In("mnemonic", p)
        \/ In("rootPk", p) /\ In("ids", p)
        \/ In("ordPk", p) /\ In("payPk", p) /\ In("identityPk", p)
        \/ In("wif", p) /\ ~In("id", p) /\ ~In("xprv", p) /\ ~In("rootPk", p)

\* The if-chain of decryptData on the parsed JSON value: TRUE when one of its
\* branches returns parsedJson, FALSE when it falls through to the throw.
IsKnownStructure(parsedJson) ==
    /\ TypeOf(parsedJson) = "object"
    /\ parsedJson.t = "object"
    /\ LET p == parsedJson.o IN
        \/ In("xprv", p) /\ In("ids", p) /\ In("mnemonic", p)
        \/ In("rootPk", p) /\ In("ids", p)
        \/ In("wif", p) /\ In("id", p)
        \/ In("ordPk", p) /\ In("payPk", p) /\ In("identityPk", p)
        \/ In("wif", p) /\ ~In("id", p) /\ ~In("xprv", p) /\ ~In("rootPk", p)

(***************************************************************************)
(* The type guards of guards.ts, on an object's field map.                 *)
(***************************************************************************)
isLegacyBackup(backup) ==
    In("xprv", backup) /\ In("mnemonic", backup) /\ In("ids", backup)

isType42Backup(backup) ==
    In("rootPk", backup) /\ In("ids", backup) /\ ~In("xprv", backup)

isMemberBackup(backup) ==
    In("wif", backup) /\ In("id", backup) /\ ~In("xprv", backup) /\ ~In("rootPk", backup)

isWifBackup(backup) ==
    In("wif", backup) /\ ~In("id", backup) /\ ~In("xprv", backup) /\ ~In("rootPk", backup)

isOneSatBackup(backup) ==
    /\ In("ordPk", backup) /\ In("payPk", backup) /\ In("identityPk", backup)
    /\ ~In("mnemonic", backup) /\ ~In("payDerivationPath", backup)

isVaultBackup(backup) == In("encryptedVault", backup)

\* A guard that does not ask for a derivation marker.
isYoursWalletBackupAnyKeys(backup) == In("payPk", backup) /\ In("ordPk", backup)

isYoursWalletBackup(backup) ==
    /\ In("payPk", backup) /\ In("ordPk", backup)
    /\ \/ In("mnemonic", backup)
       \/ In("payDerivationPath", backup)
       \/ In("ordDerivationPath", backup)

isYoursWalletZipBackup(backup) ==
    In("chromeStorage", backup) /\ In("accountData", backup)

getBackupType(backup) ==
    CASE isLegacyBackup(backup) -> "Legacy"
      [] isType42Backup(backup) -> "Type42"
      [] isMemberBackup(backup) -> "Member"
      [] isWifBackup(backup) -> "WIF"
      [] isOneSatBackup(backup) -> "OneSat"
      [] isVaultBackup(backup) -> "Vault"
      [] isYoursWalletZipBackup(backup) -> "YoursWalletZip"
      [] isYoursWalletBackup(backup) -> "YoursWallet"
      [] OTHER -> "Unknown"

\* isYoursWalletBackup of yours-wallet.ts, which also asks for string keys.
isYoursWalletBackup_yours_wallet(backup) ==
    /\ IsStringField("payPk", backup)
    /\ IsStringField("ordPk", backup)
    /\ \/ In("mnemonic", backup)
       \/ In("payDerivationPath", backup)
       \/ In("ordDerivationPath", backup)

(***************************************************************************)
(* JSON text.  A text is a sequence of lexemes: the braces, one lexeme per *)
(* member of an object, a standalone literal, or a run of characters that  *)
(* is no JSON at all (a raw WIF).                                          *)
(***************************************************************************)
LBrace == [lex |-> "{"]
RBrace == [lex |-> "}"]
Member(k, v) == [lex |-> "member", name |-> k, val |-> v]
Literal(v) == [lex |-> "literal", val |-> v]
Chars(s) == [lex |-> "chars", s |-> s]

\* The order in which the members of an object are written.
KeyOrder ==
    << "ids", "xprv", "mnemonic", "rootPk", "wif", "id", "ordPk", "payPk",
       "identityPk", "encryptedVault", "scheme",
       "payDerivationPath", "ordDerivationPath", "chromeStorage",
       "accountData", "some", "not", "label", "createdAt" >>

\* JSON.stringify of a member's value: NaN is written as null.
JsonValue(v) == IF v.t = "number" /\ v.v = "NaN" THEN Null ELSE v

\* A serializer that loses the label.
JSONstringifyWithoutLabel(o) ==
    LET ks == SelectSeq(KeyOrder, LAMBDA k : k \in DOMAIN o /\ k # "label")
    IN  <<LBrace>> \o [i \in 1..Len(ks) |-> Member(ks[i], JsonValue(o[ks[i]]))]
                   \o <<RBrace>>

\* JSON.stringify(object): members whose value is undefined are left out.
JSONstringify(o) ==
    LET ks == SelectSeq(KeyOrder, LAMBDA k : k \in DOMAIN o /\ o[k].t # "undefined")
    IN  <<LBrace>> \o [i \in 1..Len(ks) |-> Member(ks[i], JsonValue(o[ks[i]]))]
                   \o <<RBrace>>

\* A parser that takes every text but an object's for a syntax error.
JSONparseObjectsOnly(text) ==
    LET n == Len(text) IN
    IF /\ n >= 2
       /\ text[1] = LBrace
       /\ text[n] = RBrace
       /\ \A i \in 2..(n - 1) : text[i].lex = "member"
    THEN [ok |-> TRUE,
          value |-> Obj([k \in {text[i].name : i \in 2..(n - 1)} |->
                            text[CHOOSE i \in 2..(n - 1) : text[i].name = k].val])]
    ELSE [ok |-> FALSE, value |-> Undefined]

\* JSON.parse(text): [ok |-> TRUE, value |-> v], or ok = FALSE for a SyntaxError.
JSONparse(text) ==
    LET n == Len(text) IN
    IF /\ n >= 2
       /\ text[1] = LBrace
       /\ text[n] = RBrace
       /\ \A i \in 2..(n - 1) : text[i].lex = "member"
    THEN LET names == {text[i].name : i \in 2..(n - 1)}
             last(k) == CHOOSE i \in 2..(n - 1) :
                           /\ text[i].name = k
                           /\ \A j \in 2..(n - 1) : text[j].name = k => j <= i
         IN  [ok |-> TRUE, value |-> Obj([k \in names |-> text[last(k)].val])]
    ELSE IF n = 1 /\ text[1].lex = "literal"
    THEN [ok |-> TRUE, value |-> text[1].val]
    ELSE [ok |-> FALSE, value |-> Undefined]

\* The characters of a text as one JavaScript string.
SpellValue(v) ==
    CASE v.t = "string" -> "\"" \o v.v \o "\""
      [] v.t = "number" -> v.v
      [] v.t = "null" -> "null"
      [] OTHER -> "{}"

SpellLexeme(x) ==
    CASE x.lex = "chars" -> x.s
      [] x.lex = "literal" -> SpellValue(x.val)
      [] x.lex = "member" -> "\"" \o x.name \o "\":" \o SpellValue(x.val) \o ","
      [] OTHER -> x.lex

RECURSIVE SpellFrom(_, _)
SpellFrom(text, i) ==
    IF i > Len(text) THEN "" ELSE SpellLexeme(text[i]) \o SpellFrom(text, i + 1)

Spell(text) == SpellFrom(text, 1)

(***************************************************************************)
(* Codecs: TextEncoder / TextDecoder and the base64 helpers of @bsv/sdk.   *)
(***************************************************************************)
\* new TextEncoder().encode(text)
TextEncode(text) == [i \in 1..Len(text) |-> [u8 |-> text[i]]]

\* new TextDecoder().decode(bytes): bytes that are no UTF-8 become U+FFFD.
TextDecode(bytes) ==
    [i \in 1..Len(bytes) |->
        IF "u8" \in DOMAIN bytes[i] THEN bytes[i].u8 ELSE Chars("\\uFFFD")]

\* toBase64(bytes): one character per byte.
toBase64(bytes) == [i \in 1..Len(bytes) |-> [b64 |-> bytes[i]]]

\* A character outside the base64 alphabet.
BadChar == [bad |-> "%"]

IsBase64(str) == \A i \in 1..Len(str) : "b64" \in DOMAIN str[i]

\* toArray(str, 'base64') of a lenient decoder: characters outside the
\* alphabet are skipped.
toArray(str) ==
    LET good == SelectSeq(str, LAMBDA c : "b64" \in DOMAIN c)
    IN  [i \in 1..Len(good) |-> good[i].b64]

(***************************************************************************)
(* Platform cryptography.                                                  *)
(***************************************************************************)
\* A source that returns the same bytes to every call.
getRandomValuesFixed(n, r) == [i \in 1..n |-> [rnd |-> 0]]

\* crypto.getRandomValues(new Uint8Array(n)); r is the value drawn.
getRandomValues(n, r) == [i \in 1..n |-> [rnd |-> r]]

\* The values the random source returns to one call, which draws twice (salt,
\* then IV): entropy names the state of the source when the call is made.
SaltDraw(entropy) == 2 * entropy
IvDraw(entropy) == 2 * entropy + 1

\* deriveKey(passphrase, salt, iterations = RECOMMENDED_PBKDF2_ITERATIONS)
deriveKey(passphrase, salt, iterations) ==
    [ pw |-> passphrase,
      salt |-> salt,
      iterations |-> IF iterations.t = "undefined"
                     THEN RECOMMENDED_PBKDF2_ITERATIONS
                     ELSE iterations.n ]

\* crypto.subtle.encrypt({name: 'AES-GCM', iv}, key, data): one ciphertext
\* byte per byte of data, then the tag.  The tag is what binds key, IV and
\* data: its first byte carries the binding, the others only their position.
GcmEncrypt(key, iv, data) ==
    [i \in 1..Len(data) |-> [ct |-> data[i], at |-> i]]
    \o [j \in 1..GCM_TAG_LENGTH_BYTES |->
            IF j = 1 THEN [tag |-> j, data |-> data, iv |-> iv, key |-> key]
            ELSE [tag |-> j]]

\* A cipher whose tag does not depend on the key: it authenticates under the
\* key the tag names, whatever key it is given.
GcmDecryptAnyKey(key, iv, ciphertext) ==
    LET n == Len(ciphertext) - GCM_TAG_LENGTH_BYTES IN
    IF n < 0 \/ \E i \in 1..n : "ct" \notin DOMAIN ciphertext[i]
    THEN [ok |-> FALSE, data |-> <<>>]
    ELSE LET data == [i \in 1..n |-> ciphertext[i].ct] IN
         IF /\ "key" \in DOMAIN ciphertext[n + 1]
            /\ ciphertext = GcmEncrypt(ciphertext[n + 1].key, iv, data)
         THEN [ok |-> TRUE, data |-> data]
         ELSE [ok |-> FALSE, data |-> <<>>]

\* A cipher that checks the key and the IV against the tag and not the data:
\* unauthenticated ciphertext.
GcmDecryptUnauthenticated(key, iv, ciphertext) ==
    LET n == Len(ciphertext) - GCM_TAG_LENGTH_BYTES IN
    IF n < 0 \/ \E i \in 1..n : "ct" \notin DOMAIN ciphertext[i]
    THEN [ok |-> FALSE, data |-> <<>>]
    ELSE IF /\ "key" \in DOMAIN ciphertext[n + 1]
            /\ ciphertext[n + 1].key = key
            /\ ciphertext[n + 1].iv = iv
         THEN [ok |-> TRUE, data |-> [i \in 1..n |-> ciphertext[i].ct]]
         ELSE [ok |-> FALSE, data |-> <<>>]

\* crypto.subtle.decrypt: the plaintext, or ok = FALSE for the OperationError
\* of a failed authentication.
GcmDecrypt(key, iv, ciphertext) ==
    LET n == Len(ciphertext) - GCM_TAG_LENGTH_BYTES IN
    IF n < 0 \/ \E i \in 1..n : "ct" \notin DOMAIN ciphertext[i]
    THEN [ok |-> FALSE, data |-> <<>>]
    ELSE LET data == [i \in 1..n |-> ciphertext[i].ct] IN
         IF ciphertext = GcmEncrypt(key, iv, data)
         THEN [ok |-> TRUE, data |-> data]
         ELSE [ok |-> FALSE, data |-> <<>>]

(***************************************************************************)
(* Errors.                                                                 *)
(***************************************************************************)
Error(message) == [class |-> "Error", name |-> "Error", message |-> message]
NoError == [class |-> "none", name |-> "", message |-> ""]
\* The DOMException crypto.subtle.decrypt rejects with when authentication fails.
OperationError ==
    [class |-> "DOMException", name |-> "OperationError", message |-> ""]

\* The TypeError the platform throws for an argument outside its range.
RangeTypeError ==
    [class |-> "TypeError", name |-> "TypeError", message |-> "Value is outside the range"]

InvalidPayload ==
    Error("Invalid payload: Payload must be an object matching BapMasterBackup, BapMemberBackup, WifBackup, or OneSatBackup structure.")
InvalidPassphraseEmpty ==
    Error("Invalid passphrase: Passphrase must be a non-empty string.")
InvalidPassphraseShort ==
    Error("Invalid passphrase: Passphrase must be at least 8 characters long.")
InvalidEncryptedString ==
    Error("Invalid encryptedString: Must be a non-empty string.")
InvalidBase64 == Error("Decryption failed: Invalid Base64 input.")
InvalidBase64Empty ==
    Error("Decryption failed: Invalid Base64 input (decoded to empty).")
TooShort == Error("Decryption failed: Encrypted data is too short.")
InvalidStructure == Error("Invalid backup structure after JSON parse.")
DecryptionFailed ==
    Error("Decryption failed: Invalid passphrase or corrupted data across all attempted iteration counts.")

\* The error kinds of the specification.
InvalidPassphraseErrors == {InvalidPassphraseEmpty, InvalidPassphraseShort}
InvalidFramingErrors == {InvalidBase64, InvalidBase64Empty, TooShort}

(***************************************************************************)
(* Encryption.                                                             *)
(***************************************************************************)
\* { ...payload, createdAt: payload.createdAt || new Date().toISOString() }
PayloadToEncrypt(p, now) ==
    [k \in DOMAIN p \cup {"createdAt"} |->
        IF k = "createdAt"
        THEN IF In("createdAt", p) /\ Truthy(p.createdAt)
             THEN p.createdAt
             ELSE S(now)
        ELSE p[k]]

\* A framing that puts the IV first.
CombinedIvFirst(salt, iv, encryptedContent) == iv \o salt \o encryptedContent

\* An encryptData that assigns createdAt on the object it was given.
CallerPayloadStamped(payload, now) == Obj(PayloadToEncrypt(payload.o, now))

\* The object the caller passed, as the caller finds it after encryptData:
\* payloadToEncrypt is a new object made by spreading payload, which is only
\* read.
CallerPayloadAfter(payload, now) == payload

\* The bytes encryptData frames: salt, then IV, then ciphertext and tag.
Combined(salt, iv, encryptedContent) == salt \o iv \o encryptedContent

\* encryptData(payload, passphrase, iterations); saltDraw and ivDraw are the
\* values the random source returns, now is the clock's ISO string.
encryptData(payload, passphrase, iterations, saltDraw, ivDraw, now) ==
    LET salt == getRandomValues(SALT_LENGTH_BYTES, saltDraw)
        iv == getRandomValues(IV_LENGTH_BYTES, ivDraw)
        key == deriveKey(passphrase, salt, iterations)
        payloadToEncrypt == PayloadToEncrypt(payload.o, now)
        jsonPayload == JSONstringify(payloadToEncrypt)
        dataToEncrypt == TextEncode(jsonPayload)
        encryptedContent == GcmEncrypt(key, iv, dataToEncrypt)
    IN  toBase64(Combined(salt, iv, encryptedContent))

\* The checks encryptBackup makes before it calls encryptData, in its order:
\* the error it throws, or NoError.
EncryptBackupError(payload, passphrase) ==
    IF ~isValidPayload(payload) THEN InvalidPayload
    ELSE IF TypeOf(passphrase) # "string" \/ Len(passphrase.v) = 0
    THEN InvalidPassphraseEmpty
    ELSE IF Len(passphrase.v) < MIN_PASSPHRASE_LENGTH THEN InvalidPassphraseShort
    ELSE NoError

(***************************************************************************)
(* Decryption.                                                             *)
(***************************************************************************)
\* Checks that leave the passphrase to decryptData.
DecryptBackupErrorStringOnly(encryptedString, passphrase) ==
    IF TypeOf(encryptedString) # "string" \/ Len(encryptedString.chars) = 0
    THEN InvalidEncryptedString
    ELSE NoError

\* The checks decryptBackup makes before it calls decryptData.
DecryptBackupError(encryptedString, passphrase) ==
    IF TypeOf(encryptedString) # "string" \/ Len(encryptedString.chars) = 0
    THEN InvalidEncryptedString
    ELSE IF TypeOf(passphrase) # "string" \/ Len(passphrase.v) = 0
    THEN InvalidPassphraseEmpty
    ELSE NoError

\* Framing checks that ask for the salt alone.
FramingErrorSaltOnly(encryptedBackup, combinedBytes) ==
    IF Len(encryptedBackup) > 0 /\ Len(combinedBytes) = 0 THEN InvalidBase64Empty
    ELSE IF Len(combinedBytes) < SALT_LENGTH_BYTES THEN TooShort
    ELSE NoError

\* The framing checks of decryptData on the decoded bytes.
FramingError(encryptedBackup, combinedBytes) ==
    IF Len(encryptedBackup) > 0 /\ Len(combinedBytes) = 0 THEN InvalidBase64Empty
    ELSE IF Len(combinedBytes) < SALT_LENGTH_BYTES + IV_LENGTH_BYTES THEN TooShort
    ELSE NoError

\* bytes.slice(start, end): positions start .. end - 1 counted from 0, cut off
\* at the end of bytes.
Slice(bytes, start, end) ==
    SubSeq(bytes, start + 1, IF end < Len(bytes) THEN end ELSE Len(bytes))

SaltOf(combinedBytes) == Slice(combinedBytes, 0, SALT_LENGTH_BYTES)
IvOf(combinedBytes) ==
    Slice(combinedBytes, SALT_LENGTH_BYTES, SALT_LENGTH_BYTES + IV_LENGTH_BYTES)
CiphertextOf(combinedBytes) ==
    Slice(combinedBytes, SALT_LENGTH_BYTES + IV_LENGTH_BYTES, Len(combinedBytes))

\* A default list without the legacy count.
IterationCountsToTryRecommendedOnly(attemptIterations) ==
    IF TypeOf(attemptIterations) = "number" THEN <<attemptIterations.n>>
    ELSE IF attemptIterations.t = "array" THEN attemptIterations.a
    ELSE <<RECOMMENDED_PBKDF2_ITERATIONS>>

\* A list cut down to its first candidate.
IterationCountsToTryFirstOnly(attemptIterations) ==
    IF TypeOf(attemptIterations) = "number" THEN <<attemptIterations.n>>
    ELSE IF attemptIterations.t = "array"
    THEN SubSeq(attemptIterations.a, 1, IF Len(attemptIterations.a) > 0 THEN 1 ELSE 0)
    ELSE <<RECOMMENDED_PBKDF2_ITERATIONS, LEGACY_PBKDF2_ITERATIONS>>

\* iterationCountsToTry
IterationCountsToTry(attemptIterations) ==
    IF TypeOf(attemptIterations) = "number" THEN <<attemptIterations.n>>
    ELSE IF attemptIterations.t = "array" THEN attemptIterations.a
    ELSE <<RECOMMENDED_PBKDF2_ITERATIONS, LEGACY_PBKDF2_ITERATIONS>>

\* An interpretation that falls back to the bare secret for every text that
\* is no known structure.
InterpretAlwaysFallback(decryptedString) ==
    LET parsed == JSONparse(decryptedString) IN
    IF parsed.ok /\ IsKnownStructure(parsed.value)
    THEN [kind |-> "return", value |-> parsed.value, error |-> NoError]
    ELSE [kind |-> "return",
          value |-> Obj([wif |-> S(Spell(decryptedString))]),
          error |-> NoError]

\* An interpretation without the fallback: text that is no JSON is an error.
InterpretJsonOnly(decryptedString) ==
    LET parsed == JSONparse(decryptedString) IN
    IF parsed.ok /\ IsKnownStructure(parsed.value)
    THEN [kind |-> "return", value |-> parsed.value, error |-> NoError]
    ELSE [kind |-> "throw", value |-> Undefined, error |-> InvalidStructure]

\* What decryptData does with the decrypted string: the value it returns, or
\* the error it throws.
Interpret(decryptedString) ==
    LET parsed == JSONparse(decryptedString) IN
    IF parsed.ok
    THEN IF IsKnownStructure(parsed.value)
         THEN [kind |-> "return", value |-> parsed.value, error |-> NoError]
         ELSE [kind |-> "throw", value |-> Undefined, error |-> InvalidStructure]
    ELSE [kind |-> "return",
          value |-> Obj([wif |-> S(Spell(decryptedString))]),
          error |-> NoError]

\* What crypto.subtle.deriveKey rejects with for an iteration count PBKDF2
\* cannot run with: a TypeError for a count that is no unsigned long, an
\* OperationError for zero.
DeriveKeyError(iterations) ==
    IF iterations < 0 THEN RangeTypeError
    ELSE IF iterations = 0 THEN OperationError
    ELSE NoError

\* A catch that lets the loop go on after any error.
CaughtAbsorbing(decryptionError) ==
    [kind |-> "continue", value |-> Undefined, error |-> decryptionError]

\* The catch of the loop: only a DOMException named OperationError lets the
\* loop go on.
Caught(decryptionError) ==
    IF decryptionError.class = "DOMException" /\ decryptionError.name = "OperationError"
    THEN [kind |-> "continue", value |-> Undefined, error |-> decryptionError]
    ELSE [kind |-> "throw", value |-> Undefined, error |-> decryptionError]

\* One pass of decryptData's loop for one iteration count: "return", "throw"
\* (the error is rethrown) or "continue" (authentication failed).
Attempt(passphrase, salt, iv, encryptedCiphertext, iterations) ==
    LET key == deriveKey(passphrase, salt, Num(iterations))
        decrypted == GcmDecrypt(key, iv, encryptedCiphertext)
    IN  IF DeriveKeyError(iterations) # NoError
        THEN Caught(DeriveKeyError(iterations))
        ELSE IF decrypted.ok
        THEN LET r == Interpret(TextDecode(decrypted.data))
             IN  IF r.kind = "throw" THEN Caught(r.error) ELSE r
        ELSE Caught(OperationError)

\* The throw after the loop.
ExhaustedError(lastError) ==
    IF lastError # NoError /\ lastError.name = "OperationError"
    THEN DecryptionFailed
    ELSE IF lastError # NoError THEN lastError ELSE DecryptionFailed

\* What a call of decryptBackup ends with, and no call at all.
Returned(value) == [outcome |-> "returned", value |-> value, error |-> NoError]
Threw(error) == [outcome |-> "threw", value |-> Undefined, error |-> error]
NotCalled == [outcome |-> "none", value |-> Undefined, error |-> NoError]

\* decryptData's loop from candidate i on, run to its end.
RECURSIVE LoopFrom(_, _, _, _, _, _)
LoopFrom(passphrase, salt, iv, encryptedCiphertext, iterationCountsToTry, i) ==
    IF i > Len(iterationCountsToTry)
    THEN Threw(ExhaustedError(IF i = 1 THEN NoError ELSE OperationError))
    ELSE LET r == Attempt(passphrase, salt, iv, encryptedCiphertext,
                          iterationCountsToTry[i])
         IN  CASE r.kind = "return" -> Returned(r.value)
               [] r.kind = "throw" -> Threw(r.error)
               [] OTHER -> LoopFrom(passphrase, salt, iv, encryptedCiphertext,
                                    iterationCountsToTry, i + 1)

\* decryptData(encryptedBackup, passphrase, attemptIterations) as one step.
decryptData(encryptedBackup, passphrase, attemptIterations, strict) ==
    IF strict /\ ~IsBase64(encryptedBackup.chars) THEN Threw(InvalidBase64)
    ELSE LET combinedBytes == toArray(encryptedBackup.chars)
             error == FramingError(encryptedBackup.chars, combinedBytes)
         IN  IF error # NoError THEN Threw(error)
             ELSE LoopFrom(passphrase, SaltOf(combinedBytes), IvOf(combinedBytes),
                           CiphertextOf(combinedBytes),
                           IterationCountsToTry(attemptIterations), 1)

\* decryptBackup(encryptedString, passphrase, attemptIterations) as one step.
decryptBackup(encryptedString, passphrase, attemptIterations, strict) ==
    LET error == DecryptBackupError(encryptedString, passphrase) IN
    IF error # NoError THEN Threw(error)
    ELSE decryptData(encryptedString, passphrase, attemptIterations, strict)

(***************************************************************************)
(* The inputs the calls are made with.                                     *)
(***************************************************************************)
T0 == "2024-01-01T00:00:00.000Z"
\* new Date().toISOString()
Clock == {"2025-06-01T12:00:00.000Z"}
\* The states the random source may be in when a call draws from it.
Entropy == {1, 2}

LegacyMaster == [ids |-> S("ids"), xprv |-> S("xprv"), mnemonic |-> S("words")]
Type42Master == [ids |-> S("ids"), rootPk |-> S("rootPk")]
MemberBackup == [wif |-> S("wif"), id |-> S("id")]
WifBackup == [wif |-> S("wif")]
OneSatBackup == [ordPk |-> S("ord"), payPk |-> S("pay"), identityPk |-> S("idk")]
VaultBackup == [encryptedVault |-> S("vault"), scheme |-> S("vscode-bitcoin-v1")]
YoursWalletBackup ==
    [payPk |-> S("pay"), ordPk |-> S("ord"), payDerivationPath |-> S("m/0")]
YoursWalletZipBackup ==
    [chromeStorage |-> Obj(EmptyObject), accountData |-> Obj(EmptyObject)]

\* o with label and createdAt added.
With(o, label, createdAt) ==
    [k \in DOMAIN o \cup {"label", "createdAt"} |->
        IF k = "label" THEN label
        ELSE IF k = "createdAt" THEN createdAt
        ELSE o[k]]
\* o with createdAt alone.
WithCreatedAt(o, createdAt) ==
    [k \in DOMAIN o \cup {"createdAt"} |->
        IF k = "createdAt" THEN createdAt ELSE o[k]]

CoreVariants ==
    {LegacyMaster, Type42Master, MemberBackup, WifBackup, OneSatBackup}

\* Payloads of the five variants the source's validator names: bare, and with
\* label and createdAt.
CorePayloads ==
    {Obj(o) : o \in CoreVariants}
    \cup {Obj(With(o, S("label"), S(T0))) : o \in {LegacyMaster, WifBackup}}

\* Payloads of the other variants, and values that are no backup at all.
OtherPayloads ==
    { Obj(VaultBackup), Obj(YoursWalletBackup), Obj(YoursWalletZipBackup),
      Obj(WithCreatedAt(WifBackup, S(""))),
      Obj([wif |-> S("wif"), id |-> S("id"), xprv |-> S("xprv")]),
      Obj([wif |-> S("wif"), id |-> N("7")]),
      Obj([some |-> S("data"), not |-> S("aBackup")]),
      Null, S("not an object") }

Payloads == CorePayloads \cup OtherPayloads

\* The passphrases: 12345, '', 7 characters, exactly 8, and a longer one.
Passphrase8 == S("eightchr")
PassphraseLong == S("aSecureP@ssw0rd")
EncryptPassphrases ==
    {N("12345"), S(""), S("shortpw"), Passphrase8, PassphraseLong}
DecryptPassphrases == {N("12345"), S(""), Passphrase8, PassphraseLong}

IterationValues ==
    {RECOMMENDED_PBKDF2_ITERATIONS, LEGACY_PBKDF2_ITERATIONS, CUSTOM_ITERATIONS}
\* encryptBackup's optional iterations argument.
IterationArgs == {Undefined} \cup {Num(n) : n \in IterationValues}

\* The sequences over set of length at most n.
SeqsUpTo(set, n) == UNION {[1..m -> set] : m \in 0..n}

\* decryptBackup's optional attemptIterations argument: absent, one count, or
\* an array of the two named counts in any order and length.
CandidateArgs ==
    {Undefined}
    \cup {Num(n) : n \in IterationValues}
    \cup {Arr(a) : a \in SeqsUpTo({RECOMMENDED_PBKDF2_ITERATIONS,
                                   LEGACY_PBKDF2_ITERATIONS}, MaxCandidates)}

\* Plaintexts encrypted outside this library: a raw WIF (the legacy format),
\* an object text cut short, a text of digits, the JSON of a string, of true,
\* of null and of an empty array, and JSON objects this version's rules do
\* not name.
RawWif == "L2rU9j3aVEdY"
ForeignTexts ==
    { <<Chars(RawWif)>>,
      <<LBrace, Member("wif", S("wif"))>>,
      <<Literal(N("12345"))>>,
      <<Literal(S("5Kb8kLf9"))>>,
      <<Literal([t |-> "boolean", v |-> "true"])>>,
      <<Literal(Null)>>,
      <<Literal(Arr(<<>>))>>,
      JSONstringify([some |-> S("data")]),
      JSONstringify(VaultBackup) }

\* Candidate lists with a count deriveKey rejects: -1 and 0.
UnusableCandidateArgs ==
    { Arr(<<-1, RECOMMENDED_PBKDF2_ITERATIONS>>),
      Arr(<<LEGACY_PBKDF2_ITERATIONS, -1>>),
      Arr(<<0, LEGACY_PBKDF2_ITERATIONS>>) }

\* An encoded string as a JavaScript value.
Str64(chars) == [t |-> "string", chars |-> chars]

\* The arguments decryptBackup is called with when str is the string at hand:
\* str with a proper passphrase and any candidates, and str or a number with
\* any passphrase and no candidates.
DecryptBackupArgs(str) ==
    {<<Str64(str), p, a>> : p \in {Passphrase8, PassphraseLong}, a \in CandidateArgs}
    \cup {<<e, p, Undefined>> : e \in {Str64(str), N("12345")}, p \in DecryptPassphrases}

(***************************************************************************)
(* State.                                                                  *)
(***************************************************************************)
NoOrigin ==
    [kind |-> "none", payload |-> Undefined, passphrase |-> Undefined,
     iterations |-> 0, now |-> "", text |-> <<>>, tamper |-> "none"]

EncIdle ==
    [pc |-> "idle", payload |-> Undefined, passphrase |-> Undefined,
     iterations |-> Undefined, error |-> NoError, caller |-> Undefined]

DecIdle ==
    [pc |-> "idle", entry |-> "", encryptedString |-> Undefined,
     passphrase |-> Undefined, attemptIterations |-> Undefined,
     salt |-> <<>>, iv |-> <<>>, encryptedCiphertext |-> <<>>,
     iterationCountsToTry |-> <<>>, i |-> 0, lastError |-> NoError,
     outcome |-> "none", value |-> Undefined, error |-> NoError]

NoOps == [random |-> 0, derive |-> 0, encrypt |-> 0, decrypt |-> 0, attempts |-> <<>>]

\* No object is at the guards.
NoSubject == EmptyObject
\* Nothing has been asked about the object yet.
NoVerdict == [ran |-> {}, guards |-> {}, type |-> "none", ownGuard |-> FALSE,
              valid |-> FALSE, known |-> FALSE]

\* The codec's variables before any call.
CodecInit ==
    /\ encoded = <<>>
    /\ origin = NoOrigin
    /\ enc = EncIdle
    /\ dec = DecIdle
    /\ ops = NoOps
    /\ console = <<>>

\* The upg command has not been run.
UpgIdle == [pc |-> "idle", password |-> Undefined, decrypted |-> NotCalled,
            reencrypted |-> FALSE, exitCode |-> 0, output |-> <<>>,
            report |-> <<>>, reread |-> NotCalled]

\* The number of invocations that may be in flight at once, and the number
\* of invocations made in all.
MaxInFlight == 2
MaxInvocations == 3

\* The locals of one invocation: none is in flight.  `at` is the await the
\* invocation is suspended at.
InvIdle ==
    [kind |-> "none", at |-> "idle", call |-> DecIdle, payload |-> Undefined,
     passphrase |-> Undefined, iterations |-> Undefined, salt |-> <<>>,
     iv |-> <<>>, key |-> deriveKey(Undefined, <<>>, Undefined), entropy |-> 0,
     now |-> "", strict |-> FALSE, overlapped |-> FALSE, result |-> NotCalled]

\* No invocation was made; the random source has served no call.
CallsIdle ==
    [drawn |-> 0, started |-> 0, failed |-> FALSE,
     inv |-> [c \in 1..MaxInFlight |-> InvIdle]]

Init ==
    /\ CodecInit
    /\ subject = NoSubject
    /\ verdict = NoVerdict
    /\ issued = <<>>
    /\ upg = UpgIdle
    /\ calls = CallsIdle

\* Nothing has been called yet and no string is at hand.
Fresh == origin.kind = "none" /\ enc.pc = "idle" /\ dec.pc = "idle"
\* A string is at hand and no decryption of it was started.
Quiet == origin.kind # "none" /\ dec.pc = "idle"

(***************************************************************************)
(* encryptBackup(payload, passphrase, iterations)                          *)
(***************************************************************************)
\* One call, made when the random source is in state entropy and the clock
\* reads now.
EncryptBackupCall(payload, passphrase, iterations, entropy, now) ==
    LET error == EncryptBackupError(payload, passphrase) IN
    /\ dec' = DecIdle
    /\ console' = <<>>
    /\ enc' = [pc |-> "done", payload |-> payload, passphrase |-> passphrase,
               iterations |-> iterations, error |-> error,
               caller |-> IF error # NoError THEN payload
                          ELSE CallerPayloadAfter(payload, now)]
    /\ IF error # NoError
       THEN /\ encoded' = <<>>
            /\ origin' = NoOrigin
            /\ ops' = NoOps
       ELSE LET result == encryptData(payload, passphrase, iterations,
                                      SaltDraw(entropy), IvDraw(entropy), now)
            IN  /\ encoded' = result
                /\ origin' = [kind |-> "encryptBackup",
                              payload |-> payload,
                              passphrase |-> passphrase,
                              iterations |-> deriveKey(passphrase, <<>>, iterations).iterations,
                              now |-> now,
                              text |-> <<>>,
                              tamper |-> "none"]
                /\ ops' = [NoOps EXCEPT !.random = 2, !.derive = 1, !.encrypt = 1]

EncryptBackup ==
    /\ Fresh
    /\ \E payload \in Payloads, passphrase \in EncryptPassphrases,
          iterations \in IterationArgs, entropy \in Entropy, now \in Clock :
        EncryptBackupCall(payload, passphrase, iterations, entropy, now)
    /\ UNCHANGED otherVars

(***************************************************************************)
(* The environment: backups made elsewhere, strings that are no backup,    *)
(* and damage to a backup in storage.                                      *)
(***************************************************************************)
\* A backup of a plaintext made outside this library with the same framing
\* (the legacy producers of raw WIF backups).
ForeignEncryptCall(text, passphrase, iterations, entropy) ==
    LET salt == getRandomValues(SALT_LENGTH_BYTES, SaltDraw(entropy))
        iv == getRandomValues(IV_LENGTH_BYTES, IvDraw(entropy))
        key == deriveKey(passphrase, salt, Num(iterations))
    IN  /\ encoded' = toBase64(Combined(salt, iv, GcmEncrypt(key, iv, TextEncode(text))))
        /\ origin' = [kind |-> "foreign", payload |-> Undefined,
                      passphrase |-> passphrase, iterations |-> iterations,
                      now |-> "", text |-> text, tamper |-> "none"]
        /\ enc' = EncIdle
        /\ dec' = DecIdle
        /\ ops' = NoOps
        /\ console' = <<>>

ForeignEncrypt ==
    /\ Fresh
    /\ \E text \in ForeignTexts, passphrase \in {PassphraseLong},
          iterations \in {LEGACY_PBKDF2_ITERATIONS, RECOMMENDED_PBKDF2_ITERATIONS},
          entropy \in Entropy :
        ForeignEncryptCall(text, passphrase, iterations, entropy)
    /\ UNCHANGED otherVars

\* Strings that no encryption produced: too short, not base64, or 28 bytes
\* and more of noise.
ForgedStrings ==
    { <<>>,
      toBase64(getRandomValues(9, 0)),
      <<BadChar, BadChar, BadChar>>,
      toBase64(getRandomValues(SALT_LENGTH_BYTES + IV_LENGTH_BYTES - 1, 0)) \o <<BadChar>>,
      toBase64(getRandomValues(SALT_LENGTH_BYTES + IV_LENGTH_BYTES + 20, 0)) }

Forge ==
    /\ Fresh
    /\ \E str \in ForgedStrings :
        /\ encoded' = str
        /\ origin' = [NoOrigin EXCEPT !.kind = "forged"]
        /\ enc' = EncIdle
        /\ dec' = DecIdle
        /\ ops' = NoOps
        /\ console' = <<>>
    /\ UNCHANGED otherVars

\* A byte other than b: a ciphertext byte still decrypts, to another
\* plaintext byte.
Damaged(b) ==
    IF "ct" \in DOMAIN b THEN [b EXCEPT !.ct = [flipped |-> b.ct]]
    ELSE [flipped |-> b]

\* The lengths a stored backup may be cut down to: one byte short of salt
\* and IV, salt and IV alone, all but the last byte.
CutLengths(str) ==
    { SALT_LENGTH_BYTES + IV_LENGTH_BYTES - 1, SALT_LENGTH_BYTES + IV_LENGTH_BYTES,
      Len(str) - 1 }

\* The positions at which one byte may be altered: the first byte of the
\* ciphertext and the last byte of the tag.
AlterPositions(str) ==
    { SALT_LENGTH_BYTES + IV_LENGTH_BYTES + 1, Len(str) }

Truncate ==
    /\ dec.pc = "idle"
    /\ origin.kind \in {"encryptBackup", "foreign"}
    /\ origin.tamper = "none"
    /\ \E n \in CutLengths(encoded) :
        /\ encoded' = SubSeq(encoded, 1, n)
        /\ origin' = [origin EXCEPT !.tamper = "truncated"]
        /\ enc' = EncIdle
        /\ UNCHANGED <<dec, ops, console>>
    /\ UNCHANGED otherVars

Alter ==
    /\ dec.pc = "idle"
    /\ origin.kind \in {"encryptBackup", "foreign"}
    /\ origin.tamper = "none"
    /\ \E i \in AlterPositions(encoded) :
        /\ encoded' = [encoded EXCEPT ![i] = [b64 |-> Damaged(encoded[i].b64)]]
        /\ origin' = [origin EXCEPT !.tamper = "altered"]
        /\ enc' = EncIdle
        /\ UNCHANGED <<dec, ops, console>>
    /\ UNCHANGED otherVars

(***************************************************************************)
(* decryptBackup / decryptData, up to the loop.                            *)
(***************************************************************************)
\* The record of a call that begins: its entry point and its arguments.
DecCall(entry, encryptedString, passphrase, attemptIterations) ==
    [DecIdle EXCEPT !.entry = entry, !.encryptedString = encryptedString,
                    !.passphrase = passphrase,
                    !.attemptIterations = attemptIterations]

\* The record of a call that ends by throwing error.
DecThrew(call, error) ==
    [call EXCEPT !.pc = "done", !.outcome = "threw", !.error = error]

\* decryptData's steps before the loop.  strict tells whether the base64
\* decoder throws on a character outside the alphabet or skips it.
DecryptDataBegin(call, strict) ==
    IF strict /\ ~IsBase64(encoded)
    THEN /\ console' = <<[text |-> "Failed to decode base64 string (toArray threw):",
                          arg |-> Error("Invalid base64")]>>
         /\ dec' = DecThrew(call, InvalidBase64)
    ELSE LET combinedBytes == toArray(encoded)
             error == FramingError(encoded, combinedBytes)
         IN  /\ console' = <<>>
             /\ IF error # NoError
                THEN dec' = DecThrew(call, error)
                ELSE dec' = [call EXCEPT
                                !.pc = "loop",
                                !.salt = SaltOf(combinedBytes),
                                !.iv = IvOf(combinedBytes),
                                !.encryptedCiphertext = CiphertextOf(combinedBytes),
                                !.iterationCountsToTry =
                                    IterationCountsToTry(call.attemptIterations),
                                !.i = 1]

\* decryptBackup(encryptedString, passphrase, attemptIterations); the first
\* argument is the string at hand or, wrongly typed, a number.
DecryptBackup ==
    /\ Quiet
    /\ \E args \in DecryptBackupArgs(encoded), strict \in BOOLEAN :
        LET call == DecCall("decryptBackup", args[1], args[2], args[3])
            error == DecryptBackupError(args[1], args[2]) IN
        /\ enc' = EncIdle
        /\ ops' = NoOps
        /\ UNCHANGED <<encoded, origin>>
        /\ IF error # NoError
           THEN /\ console' = <<>>
                /\ dec' = DecThrew(call, error)
           ELSE DecryptDataBegin(call, strict)
    /\ UNCHANGED otherVars

\* decryptData(encryptedBackup, passphrase, attemptIterations) called directly
\* (the crypto module's own tests do).
DecryptData ==
    /\ Quiet
    /\ \E passphrase \in {Passphrase8, PassphraseLong},
       attemptIterations \in {Undefined, Num(LEGACY_PBKDF2_ITERATIONS)},
       strict \in BOOLEAN :
        /\ enc' = EncIdle
        /\ ops' = NoOps
        /\ UNCHANGED <<encoded, origin>>
        /\ DecryptDataBegin(DecCall("decryptData", Str64(encoded), passphrase,
                                    attemptIterations), strict)
    /\ UNCHANGED otherVars

(***************************************************************************)
(* decryptData's loop and what follows it.                                 *)
(***************************************************************************)
\* A loop that goes on to the next candidate after a successful attempt.
AfterAttemptNoStop(call, r) ==
    CASE r.kind = "throw" ->
            [call EXCEPT !.pc = "done", !.outcome = "threw",
                         !.lastError = r.error, !.error = r.error]
      [] r.kind = "return" /\ call.i = Len(call.iterationCountsToTry) ->
            [call EXCEPT !.pc = "done", !.outcome = "returned", !.value = r.value]
      [] OTHER ->
            [call EXCEPT !.i = @ + 1, !.lastError = r.error]

\* Where the call stands after the attempt for its candidate i ended as r:
\* it has returned, it has thrown, or it goes on to candidate i + 1.
AfterAttempt(call, r) ==
    CASE r.kind = "return" ->
            [call EXCEPT !.pc = "done", !.outcome = "returned", !.value = r.value]
      [] r.kind = "throw" ->
            [call EXCEPT !.pc = "done", !.outcome = "threw",
                         !.lastError = r.error, !.error = r.error]
      [] OTHER ->
            [call EXCEPT !.i = @ + 1, !.lastError = r.error]

DecryptAttempt ==
    /\ dec.pc = "loop"
    /\ dec.i <= Len(dec.iterationCountsToTry)
    /\ LET iterations == dec.iterationCountsToTry[dec.i]
           r == Attempt(dec.passphrase, dec.salt, dec.iv, dec.encryptedCiphertext,
                        iterations)
       IN  /\ ops' = [ops EXCEPT !.derive = @ + 1,
                                 !.decrypt = IF DeriveKeyError(iterations) = NoError
                                             THEN @ + 1 ELSE @,
                                 !.attempts = Append(@, [iterations |-> iterations,
                                                         kind |-> r.kind])]
           /\ dec' = AfterAttempt(dec, r)
    /\ UNCHANGED <<encoded, origin, enc, console>>
    /\ UNCHANGED otherVars

\* A log line that tells the passphrase the attempts were made with.
ExhaustedLogWithPassphrase(call) ==
    [text |-> "All decryption attempts failed. Last error:", arg |-> call.passphrase]

\* console.error('All decryption attempts failed. Last error:', lastError)
ExhaustedLog(call) ==
    [text |-> "All decryption attempts failed. Last error:", arg |-> call.lastError]

DecryptExhausted ==
    /\ dec.pc = "loop"
    /\ dec.i > Len(dec.iterationCountsToTry)
    /\ console' = Append(console, ExhaustedLog(dec))
    /\ dec' = [dec EXCEPT !.pc = "done", !.outcome = "threw",
                          !.error = ExhaustedError(dec.lastError)]
    /\ UNCHANGED <<encoded, origin, enc, ops>>
    /\ UNCHANGED otherVars

\* The caller is done with the call's result and starts over.
Reset ==
    /\ enc.pc = "done" \/ dec.pc = "done"
    /\ encoded' = <<>>
    /\ origin' = NoOrigin
    /\ enc' = EncIdle
    /\ dec' = DecIdle
    /\ ops' = NoOps
    /\ console' = <<>>
    /\ UNCHANGED otherVars

Next ==
    \/ EncryptBackup
    \/ ForeignEncrypt
    \/ Forge
    \/ Truncate
    \/ Alter
    \/ DecryptBackup
    \/ DecryptData
    \/ DecryptAttempt
    \/ DecryptExhausted
    \/ Reset

Spec == Init /\ [][Next]_vars

(***************************************************************************)
(* The type guards, the payload validator and the classifier of decrypted   *)
(* JSON, each applied to one object.  The objects are the maps from at most *)
(* MaxFields of the keys the rules look at to values of one type.           *)
(***************************************************************************)
MaxFields == 4

GuardKeys == {"xprv", "mnemonic", "ids", "rootPk", "wif", "id", "ordPk", "payPk",
              "identityPk", "payDerivationPath", "ordDerivationPath",
              "encryptedVault", "chromeStorage", "accountData"}

Typings == {"string", "number"}

FieldMap(keys, typing) ==
    [k \in keys |-> IF typing = "string" THEN S(k) ELSE N("7")]

Subjects ==
    {FieldMap(keys, typing) :
        keys \in {ks \in SUBSET GuardKeys : Cardinality(ks) <= MaxFields},
        typing \in Typings}

\* The guards of guards.ts that say yes to an object.
GuardsTrue(backup) ==
    {g \in {"Legacy", "Type42", "Member", "WIF", "OneSat", "Vault",
            "YoursWallet", "YoursWalletZip"} :
        CASE g = "Legacy" -> isLegacyBackup(backup)
          [] g = "Type42" -> isType42Backup(backup)
          [] g = "Member" -> isMemberBackup(backup)
          [] g = "WIF" -> isWifBackup(backup)
          [] g = "OneSat" -> isOneSatBackup(backup)
          [] g = "Vault" -> isVaultBackup(backup)
          [] g = "YoursWallet" -> isYoursWalletBackup(backup)
          [] OTHER -> isYoursWalletZipBackup(backup)}

GuardInit ==
    /\ CodecInit
    /\ subject \in Subjects
    /\ verdict = NoVerdict
    /\ issued = <<>>
    /\ upg = UpgIdle
    /\ calls = CallsIdle

\* The eight guards and getBackupType of guards.ts, and the guard of
\* yours-wallet.ts.
GetBackupType ==
    /\ "guards" \notin verdict.ran
    /\ verdict' = [verdict EXCEPT !.ran = @ \cup {"guards"},
                                  !.guards = GuardsTrue(subject),
                                  !.type = getBackupType(subject),
                                  !.ownGuard = isYoursWalletBackup_yours_wallet(subject)]
    /\ UNCHANGED <<subject, codecVars, issued, upg, calls>>

\* The payload check of encryptBackup.
ValidatePayload ==
    /\ "validate" \notin verdict.ran
    /\ verdict' = [verdict EXCEPT !.ran = @ \cup {"validate"},
                                  !.valid = isValidPayload(Obj(subject))]
    /\ UNCHANGED <<subject, codecVars, issued, upg, calls>>

\* decryptData's handling of a plaintext that is the JSON of the object.
ClassifyDecrypted ==
    /\ "classify" \notin verdict.ran
    /\ verdict' = [verdict EXCEPT
            !.ran = @ \cup {"classify"},
            !.known = (Interpret(TextDecode(TextEncode(JSONstringify(subject)))).kind
                          = "return")]
    /\ UNCHANGED <<subject, codecVars, issued, upg, calls>>

GuardNext ==
    \/ GetBackupType
    \/ ValidatePayload
    \/ ClassifyDecrypted

GuardSpec == GuardInit /\ [][GuardNext]_vars

(***************************************************************************)
(* decryptData called with a candidate list that holds a count deriveKey    *)
(* rejects.                                                                 *)
(***************************************************************************)
DecryptDataUnusable ==
    /\ Quiet
    /\ \E passphrase \in {Passphrase8, PassphraseLong},
          attemptIterations \in UnusableCandidateArgs,
          strict \in BOOLEAN :
        /\ enc' = EncIdle
        /\ ops' = NoOps
        /\ UNCHANGED <<encoded, origin>>
        /\ DecryptDataBegin(DecCall("decryptData", Str64(encoded), passphrase,
                                    attemptIterations), strict)
    /\ UNCHANGED otherVars

RetryNext ==
    \/ EncryptBackup
    \/ ForeignEncrypt
    \/ DecryptDataUnusable
    \/ DecryptAttempt
    \/ DecryptExhausted

RetrySpec == Init /\ [][RetryNext]_vars

(***************************************************************************)
(* One process that calls encryptBackup several times.  The random source   *)
(* is taken to be what crypto.getRandomValues promises: a source that does  *)
(* not return the same 16 or 12 bytes twice, so its state is the number of  *)
(* calls it has served.                                                     *)
(***************************************************************************)
MaxCalls == 2

CallPayloads == {Obj(LegacyMaster), Obj(WifBackup), Obj(OneSatBackup), Obj(VaultBackup)}
CallIterationArgs == {Undefined, Num(LEGACY_PBKDF2_ITERATIONS)}

\* The state of the random source after the calls made so far.
SourceState == Len(issued) + 1

EncryptBackupAgain ==
    /\ Len(issued) < MaxCalls
    /\ \E payload \in CallPayloads, passphrase \in {Passphrase8, PassphraseLong},
          iterations \in CallIterationArgs, now \in Clock :
        /\ EncryptBackupCall(payload, passphrase, iterations, SourceState, now)
        /\ issued' = IF EncryptBackupError(payload, passphrase) # NoError
                      THEN issued
                      ELSE Append(issued, [payload |-> payload,
                                           passphrase |-> passphrase,
                                           iterations |-> iterations,
                                           encoded |-> encoded'])
    /\ UNCHANGED <<guardVars, upg, calls>>

CallsNext == EncryptBackupAgain

CallsSpec == Init /\ [][CallsNext]_vars

(***************************************************************************)
(* The CLI: bbackup upg <inputFile> -p <password>.  The input file holds    *)
(* `encoded`: a backup encryptBackup returned, or an older backup made      *)
(* elsewhere with the same framing.                                         *)
(***************************************************************************)
\* Plaintexts of older backups: a raw WIF, and JSON written by other tools.
OlderTexts ==
    { <<Chars(RawWif)>>,
      JSONstringify(WifBackup),
      JSONstringify(WithCreatedAt(WifBackup, S(""))),
      JSONstringify([rootPk |-> S("rootPk"), ids |-> S("ids"), xprv |-> S("xprv")]),
      JSONstringify([wif |-> N("7")]) }

\* Their passphrases: 7 characters, and a longer one.
OlderPassphrases == {S("shortpw"), PassphraseLong}

OlderBackup ==
    /\ Fresh
    /\ \E text \in OlderTexts, passphrase \in OlderPassphrases,
          iterations \in {LEGACY_PBKDF2_ITERATIONS, RECOMMENDED_PBKDF2_ITERATIONS},
          entropy \in Entropy :
        ForeignEncryptCall(text, passphrase, iterations, entropy)
    /\ UNCHANGED otherVars

\* The lines of the catch block.
UpgReport(error) == <<"Error during file upgrade:", "Error: " \o error.message>>

\* The action of the upg command, from reading the input file to writing
\* the output file or process.exit(1).
Upg ==
    /\ Quiet
    /\ upg.pc = "idle"
    /\ \E password \in OlderPassphrases \cup {Passphrase8},
          strict \in BOOLEAN, entropy \in Entropy, now \in Clock :
        LET encryptedBackup == Str64(encoded)
            decrypted == decryptBackup(encryptedBackup, password, Undefined, strict)
            error == IF decrypted.outcome = "threw" THEN decrypted.error
                     ELSE EncryptBackupError(decrypted.value, password)
        IN  upg' = [UpgIdle EXCEPT
                !.pc = "exited",
                !.password = password,
                !.decrypted = decrypted,
                !.reencrypted = (decrypted.outcome = "returned"),
                !.exitCode = IF error # NoError THEN 1 ELSE 0,
                !.report = IF error # NoError THEN UpgReport(error) ELSE <<>>,
                !.output = IF error # NoError THEN <<>>
                           ELSE encryptData(decrypted.value, password,
                                            Num(RECOMMENDED_PBKDF2_ITERATIONS),
                                            SaltDraw(entropy), IvDraw(entropy), now)]
    /\ UNCHANGED <<codecVars, guardVars, issued, calls>>

\* decryptBackup of the file upg wrote, with the same password and the
\* recommended count alone.
DecryptUpgraded ==
    /\ upg.pc = "exited"
    /\ upg.exitCode = 0
    /\ \E strict \in BOOLEAN :
        upg' = [upg EXCEPT
                !.pc = "reread",
                !.reread = decryptBackup(Str64(upg.output), upg.password,
                                         Num(RECOMMENDED_PBKDF2_ITERATIONS), strict)]
    /\ UNCHANGED <<codecVars, guardVars, issued, calls>>

UpgNext ==
    \/ EncryptBackup
    \/ OlderBackup
    \/ Upg
    \/ DecryptUpgraded

UpgSpec == Init /\ [][UpgNext]_vars

(***************************************************************************)
(* Several invocations in flight at once.  encryptBackup and decryptBackup  *)
(* are async functions: an invocation runs until its next await (of         *)
(* deriveKey, of crypto.subtle.encrypt or crypto.subtle.decrypt), and       *)
(* another invocation may run before it resumes.  What the invocations      *)
(* share is outside the module: the random source and the console.          *)
(***************************************************************************)
\* Encoded strings the callers hold from earlier: a backup of this library,
\* a raw WIF backup made elsewhere with the legacy count, and a string that
\* is no backup.
StoredStrings ==
    { encryptData(Obj(WifBackup), PassphraseLong, Undefined, 0, 1, T0),
      toBase64(Combined(getRandomValues(SALT_LENGTH_BYTES, 0),
                        getRandomValues(IV_LENGTH_BYTES, 1),
                        GcmEncrypt(deriveKey(PassphraseLong,
                                             getRandomValues(SALT_LENGTH_BYTES, 0),
                                             Num(LEGACY_PBKDF2_ITERATIONS)),
                                   getRandomValues(IV_LENGTH_BYTES, 1),
                                   TextEncode(<<Chars(RawWif)>>)))),
      <<BadChar, BadChar, BadChar>> }

\* A key that is one variable of the module, set by whichever invocation
\* derived a key last.
KeyInModuleScope(inv, c) ==
    IF \E d \in DOMAIN inv : d # c /\ inv[d].at = "crypt"
    THEN inv[CHOOSE d \in DOMAIN inv : d # c /\ inv[d].at = "crypt"].key
    ELSE inv[c].key

\* const key = await deriveKey(...): the key invocation c holds.
KeyInScope(inv, c) == inv[c].key

\* Invocation c may begin: invocations are told apart by their position
\* alone, so a new one takes the first free position.
MayBegin(c) ==
    /\ calls.started < MaxInvocations
    /\ calls.inv[c].at = "idle"
    /\ \A d \in 1..(c - 1) : calls.inv[d].at # "idle"

\* Invocation c begins as v while others may be in flight, suspended at an
\* await.
Begun(c, v) ==
    LET OthersInFlight(x) ==
            \E d \in 1..MaxInFlight :
                d # x /\ calls.inv[d].at \in {"derive", "crypt"}
    IN
    [calls EXCEPT
        !.started = @ + 1,
        !.drawn = IF v.kind = "encrypt" /\ v.at = "derive" THEN @ + 1 ELSE @,
        !.inv = [d \in 1..MaxInFlight |->
                    IF d = c THEN [v EXCEPT !.overlapped = OthersInFlight(c)]
                    ELSE IF @[d].at \in {"derive", "crypt"}
                    THEN [@[d] EXCEPT !.overlapped = TRUE]
                    ELSE @[d]]]

\* encryptBackup(payload, passphrase, iterations) up to its first await: the
\* checks, and the two draws from the random source.
EncryptBackupBegin(c) ==
    /\ MayBegin(c)
    /\ \E payload \in {Obj(WifBackup), Obj(VaultBackup)},
          passphrase \in {PassphraseLong}, iterations \in {Undefined} :
        LET error == EncryptBackupError(payload, passphrase)
            entropy == calls.drawn + 1
            v == [InvIdle EXCEPT !.kind = "encrypt", !.payload = payload,
                                 !.passphrase = passphrase,
                                 !.iterations = iterations]
        IN  calls' = Begun(c,
                IF error # NoError
                THEN [v EXCEPT !.at = "done", !.result = Threw(error)]
                ELSE [v EXCEPT
                        !.at = "derive",
                        !.entropy = entropy,
                        !.salt = getRandomValues(SALT_LENGTH_BYTES, SaltDraw(entropy)),
                        !.iv = getRandomValues(IV_LENGTH_BYTES, IvDraw(entropy))])
    /\ UNCHANGED <<codecVars, guardVars, issued, upg>>

\* The strings an invocation of decryptBackup may be given: the stored ones
\* and those the invocations that ended have returned.
StringsAtHand ==
    StoredStrings \cup
    { calls.inv[d].result.value.chars :
        d \in {e \in 1..MaxInFlight : /\ calls.inv[e].kind = "encrypt"
                                       /\ calls.inv[e].at = "done"
                                       /\ calls.inv[e].result.outcome = "returned"} }

\* decryptBackup(encryptedString, passphrase, attemptIterations) up to its
\* first await: the checks, the decoding, the framing, the candidate list.
\* strict tells whether the decoder throws on a character outside the
\* alphabet; it is looked at for such strings alone.
DecryptBackupBegin(c) ==
    /\ MayBegin(c)
    /\ \E chars \in StringsAtHand, passphrase \in {Passphrase8, PassphraseLong},
          attemptIterations \in {Undefined}, strict \in BOOLEAN :
        LET call == DecCall("decryptBackup", Str64(chars), passphrase,
                            attemptIterations)
            v == [InvIdle EXCEPT !.kind = "decrypt",
                                 !.strict = strict /\ ~IsBase64(chars)]
            combinedBytes == toArray(chars)
            error == IF DecryptBackupError(Str64(chars), passphrase) # NoError
                     THEN DecryptBackupError(Str64(chars), passphrase)
                     ELSE IF strict /\ ~IsBase64(chars) THEN InvalidBase64
                     ELSE FramingError(chars, combinedBytes)
            loop == [call EXCEPT
                        !.pc = "loop",
                        !.salt = SaltOf(combinedBytes),
                        !.iv = IvOf(combinedBytes),
                        !.encryptedCiphertext = CiphertextOf(combinedBytes),
                        !.iterationCountsToTry = IterationCountsToTry(attemptIterations),
                        !.i = 1]
            empty == error = NoError /\ loop.iterationCountsToTry = <<>>
        IN  /\ calls' = Begun(c,
                    IF error # NoError
                    THEN [v EXCEPT !.at = "done", !.call = DecThrew(call, error),
                                   !.result = Threw(error)]
                    ELSE IF empty
                    THEN [v EXCEPT !.at = "done",
                                   !.call = DecThrew(loop, ExhaustedError(NoError)),
                                   !.result = Threw(ExhaustedError(NoError))]
                    ELSE [v EXCEPT !.at = "derive", !.call = loop])
            /\ console' =
                    IF /\ DecryptBackupError(Str64(chars), passphrase) = NoError
                       /\ strict /\ ~IsBase64(chars)
                    THEN Append(console,
                                [text |-> "Failed to decode base64 string (toArray threw):",
                                 arg |-> Error("Invalid base64")])
                    ELSE IF empty THEN Append(console, ExhaustedLog(loop))
                    ELSE console
    /\ UNCHANGED <<encoded, origin, enc, dec, ops, guardVars, issued, upg>>

\* Invocation c of decryptData resumes with the outcome r of the attempt for
\* its candidate i and runs to its next await or to its end.
Resumed(v, r) ==
    LET next == AfterAttempt(v.call, r) IN
    IF next.pc = "done"
    THEN [v EXCEPT !.at = "done", !.call = next,
                   !.result = IF next.outcome = "returned"
                              THEN Returned(next.value) ELSE Threw(next.error)]
    ELSE IF next.i > Len(next.iterationCountsToTry)
    THEN [v EXCEPT !.at = "done",
                   !.call = DecThrew(next, ExhaustedError(next.lastError)),
                   !.result = Threw(ExhaustedError(next.lastError))]
    ELSE [v EXCEPT !.at = "derive", !.call = next]

\* What the resumption writes with console.error.
ResumedLog(v, r) ==
    LET next == AfterAttempt(v.call, r) IN
    IF next.pc # "done" /\ next.i > Len(next.iterationCountsToTry)
    THEN <<ExhaustedLog(next)>>
    ELSE <<>>

\* await deriveKey(...) settles for invocation c: the key is bound and the
\* cipher is started with it, or the rejection is caught.
KeyDerived(c) ==
    /\ calls.inv[c].at = "derive"
    /\ LET v == calls.inv[c] IN
       IF v.kind = "encrypt"
       THEN /\ \E now \in Clock :
                 calls' = [calls EXCEPT !.inv[c] =
                    [v EXCEPT !.at = "crypt", !.now = now,
                              !.key = deriveKey(v.passphrase, v.salt, v.iterations)]]
            /\ UNCHANGED console
       ELSE LET iterations == v.call.iterationCountsToTry[v.call.i] IN
            IF DeriveKeyError(iterations) # NoError
            THEN /\ calls' = [calls EXCEPT !.inv[c] =
                                Resumed(v, Caught(DeriveKeyError(iterations)))]
                 /\ console' = console \o ResumedLog(v, Caught(DeriveKeyError(iterations)))
            ELSE /\ calls' = [calls EXCEPT !.inv[c] =
                    [v EXCEPT !.at = "crypt",
                              !.key = deriveKey(v.call.passphrase, v.call.salt,
                                                Num(iterations))]]
                 /\ UNCHANGED console
    /\ UNCHANGED <<encoded, origin, enc, dec, ops, guardVars, issued, upg>>

\* await crypto.subtle.encrypt / decrypt settles for invocation c, which runs
\* to its end or to the await of the next candidate's key.
CryptDone(c) ==
    /\ calls.inv[c].at = "crypt"
    /\ LET v == calls.inv[c]
           key == KeyInScope(calls.inv, c)
       IN  IF v.kind = "encrypt"
           THEN LET dataToEncrypt ==
                        TextEncode(JSONstringify(PayloadToEncrypt(v.payload.o, v.now)))
                    encryptedContent == GcmEncrypt(key, v.iv, dataToEncrypt)
                IN  /\ calls' = [calls EXCEPT !.inv[c] =
                            [v EXCEPT !.at = "done",
                                      !.result = Returned(Str64(toBase64(
                                          Combined(v.salt, v.iv, encryptedContent))))]]
                    /\ UNCHANGED console
           ELSE LET decrypted == GcmDecrypt(key, v.call.iv, v.call.encryptedCiphertext)
                    r == IF decrypted.ok
                         THEN LET x == Interpret(TextDecode(decrypted.data))
                              IN  IF x.kind = "throw" THEN Caught(x.error) ELSE x
                         ELSE Caught(OperationError)
                IN  /\ calls' = [calls EXCEPT !.inv[c] = Resumed(v, r)]
                    /\ console' = console \o ResumedLog(v, r)
    /\ UNCHANGED <<encoded, origin, enc, dec, ops, guardVars, issued, upg>>

\* The caller has taken the result of invocation c (the value, or the error
\* of the rejected promise): nothing of the invocation remains.
Settled(c) ==
    /\ calls.inv[c].at = "done"
    /\ calls.started < MaxInvocations
    /\ calls' = [calls EXCEPT
                    !.failed = @ \/ calls.inv[c].result.outcome = "threw",
                    !.inv[c] = InvIdle]
    /\ UNCHANGED <<codecVars, guardVars, issued, upg>>

InFlightNext ==
    \E c \in 1..MaxInFlight :
        \/ EncryptBackupBegin(c)
        \/ DecryptBackupBegin(c)
        \/ KeyDerived(c)
        \/ CryptDone(c)
        \/ Settled(c)

InFlightSpec == Init /\ [][InFlightNext]_vars

(***************************************************************************)
(* Properties.                                                             *)
(***************************************************************************)
\* The elements of a sequence.
Range(seq) == {seq[j] : j \in 1..Len(seq)}

\* The call at hand has ended.
Finished == dec.pc = "done"

\* The string at hand is what encryptBackup returned, untouched.
Intact == origin.kind = "encryptBackup" /\ origin.tamper = "none"

\* decryptData has been entered: directly, or through decryptBackup with
\* arguments that pass decryptBackup's own checks.
EngineRan ==
    /\ dec.pc # "idle"
    /\ \/ dec.entry = "decryptData"
       \/ DecryptBackupError(dec.encryptedString, dec.passphrase) = NoError

\* The call at hand was given the passphrase the string was encrypted with.
SamePassphrase == dec.passphrase = origin.passphrase

\* The candidates an attemptIterations argument stands for, in order: the
\* number, the array, or the recommended and the legacy count when absent.
CandidateList(arg) ==
    CASE arg.t = "number" -> <<arg.n>>
      [] arg.t = "array" -> arg.a
      [] OTHER -> <<RECOMMENDED_PBKDF2_ITERATIONS, LEGACY_PBKDF2_ITERATIONS>>

\* The iteration counts the call at hand was asked to try.
Candidates == Range(CandidateList(dec.attemptIterations))

\* The base64 decoder threw on the string at hand.
DecodeThrew ==
    /\ console # <<>>
    /\ console[1].text = "Failed to decode base64 string (toArray threw):"

\* The loop of the call at hand was entered.
LoopEntered == dec.i >= 1

\* Every candidate was attempted, in order, and each attempt ended in an
\* authentication failure.
AllCandidatesFailed ==
    LET list == CandidateList(dec.attemptIterations) IN
    /\ Len(ops.attempts) = Len(list)
    /\ \A j \in 1..Len(list) :
          ops.attempts[j] = [iterations |-> list[j], kind |-> "continue"]

\* The key the tag of an encoded backup binds.
KeyUsed(str) == toArray(str)[Len(str) - GCM_TAG_LENGTH_BYTES + 1].key

\* o is of one of the five core variants: their fields, all strings, with or
\* without label and createdAt.
IsCoreVariant(o) ==
    /\ (DOMAIN o \ {"label", "createdAt"}) \in {DOMAIN v : v \in CoreVariants}
    /\ \A k \in DOMAIN o : o[k].t = "string"

\* C1: Round trip of the five core variants.  When a payload of a core
\* variant was encrypted by encryptBackup and the untouched result is
\* decrypted with the same passphrase and a candidate list that holds the
\* count used at encryption (the default list after a default encryption),
\* the call returns an object whose fields are the payload's fields plus
\* createdAt, each field of the payload with the payload's value, and with
\* createdAt a string; no field is dropped and none is added.
C1_RoundTrip ==
    ( /\ Finished
      /\ EngineRan
      /\ Intact
      /\ IsCoreVariant(origin.payload.o)
      /\ SamePassphrase
      /\ origin.iterations \in Candidates )
    => /\ dec.outcome = "returned"
       /\ dec.value.t = "object"
       /\ DOMAIN dec.value.o = DOMAIN origin.payload.o \cup {"createdAt"}
       /\ \A k \in DOMAIN origin.payload.o \ {"createdAt"} :
             dec.value.o[k] = origin.payload.o[k]
       /\ dec.value.o.createdAt.t = "string"

\* A labelled Legacy master came back from decryptBackup with default
\* arguments, with its xprv and label and without a rootPk.
C1_Witness ==
    /\ Finished
    /\ Intact
    /\ origin.payload = Obj(With(LegacyMaster, S("label"), S(T0)))
    /\ dec.entry = "decryptBackup"
    /\ dec.attemptIterations = Undefined
    /\ SamePassphrase
    /\ dec.outcome = "returned"
    /\ dec.value.o.xprv = S("xprv")
    /\ dec.value.o.label = S("label")
    /\ "rootPk" \notin DOMAIN dec.value.o

\* C2: Wrong passphrase.  When the untouched result of encryptBackup is
\* decrypted with a passphrase other than the one used at encryption, with
\* the default or any candidate list, the call never returns a value, and
\* when it ends it has thrown the error 'Decryption failed: Invalid
\* passphrase or corrupted data across all attempted iteration counts.'
C2_WrongPassphrase ==
    ( /\ EngineRan
      /\ Intact
      /\ ~SamePassphrase )
    => /\ dec.outcome # "returned"
       /\ Finished => /\ dec.outcome = "threw"
                      /\ dec.error = DecryptionFailed

\* A backup encrypted with the long passphrase was tried with the 8-character
\* one under both counts, and the call threw DecryptionFailed.
C2_Witness ==
    /\ Finished
    /\ Intact
    /\ origin.passphrase = PassphraseLong
    /\ dec.passphrase = Passphrase8
    /\ dec.attemptIterations =
          Arr(<<RECOMMENDED_PBKDF2_ITERATIONS, LEGACY_PBKDF2_ITERATIONS>>)
    /\ Len(ops.attempts) = 2
    /\ dec.outcome = "threw"
    /\ dec.error = DecryptionFailed

\* C3: Defaults and iteration fallback.  encryptBackup called without an
\* iterations argument derives its key with 600000 iterations; a decryption
\* called without candidates tries 600000 and then 100000, in that order.
\* With the right passphrase on an untouched backup: one encrypted with
\* 100000 iterations is returned under the default candidates and fails with
\* DecryptionFailed under 600000 alone; one encrypted with 600000 is returned
\* under 600000 alone and fails with DecryptionFailed under 100000 alone.
C3_DefaultsAndFallback ==
    /\ (enc.pc = "done" /\ enc.error = NoError /\ enc.iterations = Undefined)
       => /\ KeyUsed(encoded).iterations = RECOMMENDED_PBKDF2_ITERATIONS
          /\ origin.iterations = RECOMMENDED_PBKDF2_ITERATIONS
    /\ Intact => KeyUsed(encoded).iterations = origin.iterations
    /\ (EngineRan /\ LoopEntered /\ dec.attemptIterations = Undefined)
       => /\ dec.iterationCountsToTry =
                <<RECOMMENDED_PBKDF2_ITERATIONS, LEGACY_PBKDF2_ITERATIONS>>
          /\ Len(ops.attempts) <= 2
          /\ \A j \in 1..Len(ops.attempts) :
                ops.attempts[j].iterations = dec.iterationCountsToTry[j]
    /\ (Finished /\ EngineRan /\ Intact /\ SamePassphrase)
       => /\ ( /\ origin.iterations = LEGACY_PBKDF2_ITERATIONS
               /\ dec.attemptIterations = Undefined )
             => dec.outcome = "returned"
          /\ ( /\ origin.iterations = LEGACY_PBKDF2_ITERATIONS
               /\ dec.attemptIterations \in
                     { Num(RECOMMENDED_PBKDF2_ITERATIONS),
                       Arr(<<RECOMMENDED_PBKDF2_ITERATIONS>>) } )
             => dec.outcome = "threw" /\ dec.error = DecryptionFailed
          /\ ( /\ origin.iterations = RECOMMENDED_PBKDF2_ITERATIONS
               /\ dec.attemptIterations \in
                     { Num(RECOMMENDED_PBKDF2_ITERATIONS),
                       Arr(<<RECOMMENDED_PBKDF2_ITERATIONS>>) } )
             => dec.outcome = "returned"
          /\ ( /\ origin.iterations = RECOMMENDED_PBKDF2_ITERATIONS
               /\ dec.attemptIterations \in
                     { Num(LEGACY_PBKDF2_ITERATIONS),
                       Arr(<<LEGACY_PBKDF2_ITERATIONS>>) } )
             => dec.outcome = "threw" /\ dec.error = DecryptionFailed

\* A backup encrypted with 100000 iterations was decrypted without
\* candidates: the attempt with 600000 failed, the one with 100000 returned.
C3_Witness ==
    /\ Finished
    /\ Intact
    /\ SamePassphrase
    /\ origin.iterations = LEGACY_PBKDF2_ITERATIONS
    /\ dec.attemptIterations = Undefined
    /\ dec.outcome = "returned"
    /\ ops.attempts =
          << [iterations |-> RECOMMENDED_PBKDF2_ITERATIONS, kind |-> "continue"],
             [iterations |-> LEGACY_PBKDF2_ITERATIONS, kind |-> "return"] >>

\* C4: Explicit candidate list.  For every candidate argument, a single
\* number or an array of any length and order, the empty one included, the
\* decryption of an untouched backup with the right passphrase returns
\* exactly when the count used at encryption is among the candidates; in
\* every other case it throws DecryptionFailed.  DecryptionFailed is thrown
\* only after every candidate of the list was attempted, in order, each
\* attempt ending in an authentication failure.
C4_ExplicitCandidates ==
    /\ ( /\ Finished
         /\ EngineRan
         /\ Intact
         /\ SamePassphrase
         /\ dec.attemptIterations # Undefined )
       => IF origin.iterations \in Candidates
          THEN dec.outcome = "returned"
          ELSE dec.outcome = "threw" /\ dec.error = DecryptionFailed
    /\ (Finished /\ dec.error = DecryptionFailed) => AllCandidatesFailed

\* A backup encrypted with 600000 iterations was returned under the
\* candidates [100000, 600000], the right count being the second.
C4_Witness ==
    /\ Finished
    /\ Intact
    /\ SamePassphrase
    /\ origin.iterations = RECOMMENDED_PBKDF2_ITERATIONS
    /\ dec.attemptIterations =
          Arr(<<LEGACY_PBKDF2_ITERATIONS, RECOMMENDED_PBKDF2_ITERATIONS>>)
    /\ dec.outcome = "returned"
    /\ Len(ops.attempts) = 2

\* C5: Legacy bare-secret fallback.  When a backup made elsewhere holds a
\* plaintext that is no JSON and is decrypted with its passphrase under
\* candidates that hold its count, the call returns the object whose only
\* field is wif, holding the plaintext's characters unchanged: no label and
\* no createdAt.
C5_LegacyBareSecret ==
    ( /\ Finished
      /\ EngineRan
      /\ origin.kind = "foreign"
      /\ origin.tamper = "none"
      /\ ~JSONparse(origin.text).ok
      /\ SamePassphrase
      /\ origin.iterations \in Candidates )
    => /\ dec.outcome = "returned"
       /\ dec.value.t = "object"
       /\ DOMAIN dec.value.o = {"wif"}
       /\ dec.value.o.wif = S(Spell(origin.text))
       /\ origin.text = <<Chars(RawWif)>> => dec.value.o.wif.v = RawWif

\* A raw WIF encrypted with 100000 iterations was decrypted without
\* candidates and came back as {wif: <the raw WIF>}.
C5_Witness ==
    /\ Finished
    /\ origin.kind = "foreign"
    /\ origin.text = <<Chars(RawWif)>>
    /\ origin.iterations = LEGACY_PBKDF2_ITERATIONS
    /\ dec.attemptIterations = Undefined
    /\ dec.outcome = "returned"
    /\ dec.value = Obj([wif |-> S(RawWif)])

\* C6: Framing fails fast.  When the string at hand decodes to fewer than 28
\* bytes, or the decoder throws on it, decryptData ends at once by throwing
\* 'Decryption failed: Encrypted data is too short.' or one of the 'Invalid
\* Base64 input' errors, for every passphrase and candidate list: no key was
\* derived, no decryption attempted, the loop never entered.
C6_FramingFailsFast ==
    ( /\ EngineRan
      /\ \/ Len(toArray(encoded)) < SALT_LENGTH_BYTES + IV_LENGTH_BYTES
         \/ DecodeThrew )
    => /\ Finished
       /\ dec.outcome = "threw"
       /\ dec.error \in InvalidFramingErrors
       /\ ops.derive = 0
       /\ ops.decrypt = 0
       /\ ops.attempts = <<>>
       /\ ~LoopEntered

\* A backup cut down to 27 bytes was given to decryptBackup with the right
\* passphrase and two candidates: it threw TooShort and derived no key.
C6_Witness ==
    /\ Finished
    /\ EngineRan
    /\ origin.tamper = "truncated"
    /\ Len(toArray(encoded)) = SALT_LENGTH_BYTES + IV_LENGTH_BYTES - 1
    /\ SamePassphrase
    /\ dec.attemptIterations =
          Arr(<<LEGACY_PBKDF2_ITERATIONS, RECOMMENDED_PBKDF2_ITERATIONS>>)
    /\ dec.error = TooShort
    /\ ops.derive = 0

\* C7: Corrupted data.  When the result of encryptBackup has its ciphertext
\* cut short or a byte of it altered, 28 bytes or more remaining, a
\* decryption with the right passphrase never returns a value, classified
\* or bare, and when it ends it has thrown DecryptionFailed.
C7_CorruptedData ==
    ( /\ EngineRan
      /\ origin.kind = "encryptBackup"
      /\ origin.tamper \in {"truncated", "altered"}
      /\ Len(toArray(encoded)) >= SALT_LENGTH_BYTES + IV_LENGTH_BYTES
      /\ SamePassphrase )
    => /\ dec.outcome # "returned"
       /\ Finished => /\ dec.outcome = "threw"
                      /\ dec.error = DecryptionFailed

\* A backup whose first ciphertext byte was altered was decrypted with the
\* right passphrase and count, and the call threw DecryptionFailed.
C7_Witness ==
    /\ Finished
    /\ origin.kind = "encryptBackup"
    /\ origin.tamper = "altered"
    /\ "flipped" \in DOMAIN encoded[SALT_LENGTH_BYTES + IV_LENGTH_BYTES + 1].b64.ct
    /\ SamePassphrase
    /\ origin.iterations \in Candidates
    /\ dec.outcome = "threw"
    /\ dec.error = DecryptionFailed

\* C8: Passphrase validation at encryption.  encryptBackup rejects with one
\* of the 'Invalid passphrase' errors every passphrase that is not a string,
\* is empty or has fewer than 8 characters, and then no salt or IV was
\* drawn, no key derived, nothing encrypted and no string produced; a
\* passphrase of exactly 8 characters is not rejected as a passphrase.
C8_PassphraseValidation ==
    enc.pc = "done" =>
        /\ (TypeOf(enc.passphrase) # "string" \/ Len(enc.passphrase.v) < 8)
           => /\ enc.error \in InvalidPassphraseErrors
              /\ ops = NoOps
              /\ encoded = <<>>
        /\ (TypeOf(enc.passphrase) = "string" /\ Len(enc.passphrase.v) = 8)
           => enc.error \notin InvalidPassphraseErrors

\* The payload matches none of the variants of the rule table (the guards
\* of guards.ts), or is no object at all.
MatchesNoVariant(payload) ==
    payload.t # "object" \/ getBackupType(payload.o) = "Unknown"

\* The payload matches a variant of the rule table, its fields of the types
\* the variants give them.
MatchesVariant(payload) ==
    /\ payload.t = "object"
    /\ getBackupType(payload.o) # "Unknown"
    /\ \A k \in DOMAIN payload.o :
          IF k \in {"chromeStorage", "accountData"}
          THEN payload.o[k].t = "object"
          ELSE payload.o[k].t = "string"

\* C9: Payload validation at encryption.  encryptBackup rejects with
\* InvalidPayload every payload that is null, is no object or matches none of
\* the variants, producing no string, and does not reject as a payload any
\* payload that matches a variant of the rule table.
C9_PayloadValidation ==
    enc.pc = "done" =>
        /\ MatchesNoVariant(enc.payload)
           => enc.error = InvalidPayload /\ encoded = <<>>
        /\ MatchesVariant(enc.payload) => enc.error # InvalidPayload

\* C10: createdAt stamping.  When the untouched result of encryptBackup is
\* decrypted and returned: if the payload had no createdAt, the result has
\* the time of the encryption as its createdAt, a string; if the payload
\* had a createdAt holding a string, whatever string, the result's createdAt
\* is that string.
C10_CreatedAtStamping ==
    (Finished /\ Intact /\ dec.outcome = "returned")
    => LET p == origin.payload.o
           r == dec.value.o
       IN  /\ "createdAt" \in DOMAIN r
           /\ r.createdAt.t = "string"
           /\ "createdAt" \notin DOMAIN p => r.createdAt = S(origin.now)
           /\ ("createdAt" \in DOMAIN p /\ p.createdAt.t = "string")
              => r.createdAt = p.createdAt

\* A passphrase encryptBackup is documented to take: a string of at least 8
\* characters.
IsProperPassphrase(passphrase) ==
    TypeOf(passphrase) = "string" /\ Len(passphrase.v) >= 8

\* The returned object has every field of the payload, createdAt set aside,
\* with the payload's value, and no other field but createdAt.
ReturnedEqualsPayload ==
    /\ dec.outcome = "returned"
    /\ dec.value.t = "object"
    /\ DOMAIN dec.value.o \ {"createdAt"} = DOMAIN origin.payload.o \ {"createdAt"}
    /\ \A k \in DOMAIN origin.payload.o \ {"createdAt"} :
          dec.value.o[k] = origin.payload.o[k]
    /\ "createdAt" \in DOMAIN dec.value.o

\* The payload carries an encryptedVault string, its other fields (scheme,
\* label, createdAt) strings too.
IsVaultPayload(payload) ==
    /\ payload.t = "object"
    /\ "encryptedVault" \in DOMAIN payload.o
    /\ DOMAIN payload.o \subseteq {"encryptedVault", "scheme", "label", "createdAt"}
    /\ \A k \in DOMAIN payload.o : payload.o[k].t = "string"

\* C11: Vault round trip.  encryptBackup accepts, with a proper passphrase,
\* every payload that carries an encryptedVault string, with or without
\* scheme, label and createdAt; and decrypting the result with the same
\* passphrase returns an object whose encryptedVault, scheme and label are
\* the payload's, with createdAt defined.
C11_VaultRoundTrip ==
    /\ ( /\ enc.pc = "done"
         /\ IsVaultPayload(enc.payload)
         /\ IsProperPassphrase(enc.passphrase) )
       => /\ enc.error = NoError
          /\ encoded # <<>>
    /\ ( /\ Finished
         /\ EngineRan
         /\ Intact
         /\ IsVaultPayload(origin.payload)
         /\ SamePassphrase
         /\ origin.iterations \in Candidates )
       => ReturnedEqualsPayload

\* The payload is a DerivedKeySet (payPk, ordPk and a derivation marker, with
\* or without identityPk) or an ArchiveBundle (chromeStorage and accountData).
IsWalletPayload(payload) ==
    /\ payload.t = "object"
    /\ LET o == payload.o IN
       \/ /\ {"payPk", "ordPk"} \subseteq DOMAIN o
          /\ DOMAIN o \cap {"mnemonic", "payDerivationPath", "ordDerivationPath"} # {}
          /\ DOMAIN o \subseteq {"payPk", "ordPk", "identityPk", "mnemonic",
                                 "payDerivationPath", "ordDerivationPath",
                                 "label", "createdAt"}
          /\ \A k \in DOMAIN o : o[k].t = "string"
       \/ /\ {"chromeStorage", "accountData"} \subseteq DOMAIN o
          /\ o.chromeStorage.t = "object"
          /\ DOMAIN o \subseteq {"chromeStorage", "accountData", "label", "createdAt"}

\* C12: DerivedKeySet and ArchiveBundle round trip.  encryptBackup accepts,
\* with a proper passphrase, every payload with payPk, ordPk and at least one
\* of mnemonic, payDerivationPath, ordDerivationPath, identityPk present or
\* not, and every payload with a chromeStorage object and accountData; and
\* decrypting the result with the same passphrase returns an object equal to
\* the payload, createdAt set aside.
C12_WalletRoundTrip ==
    /\ ( /\ enc.pc = "done"
         /\ IsWalletPayload(enc.payload)
         /\ IsProperPassphrase(enc.passphrase) )
       => /\ enc.error = NoError
          /\ encoded # <<>>
    /\ ( /\ Finished
         /\ EngineRan
         /\ Intact
         /\ IsWalletPayload(origin.payload)
         /\ SamePassphrase
         /\ origin.iterations \in Candidates )
       => ReturnedEqualsPayload

(***************************************************************************)
(* The type guards.                                                        *)
(***************************************************************************)
\* The object holds payPk, ordPk and payDerivationPath and no identityPk.
IsDerivedKeySetShape ==
    /\ In("payPk", subject) /\ In("ordPk", subject)
    /\ In("payDerivationPath", subject)
    /\ ~In("identityPk", subject)

\* The object holds the three keys and no derivation marker.
IsTriKeyShape ==
    /\ In("payPk", subject) /\ In("ordPk", subject) /\ In("identityPk", subject)
    /\ ~In("mnemonic", subject)
    /\ ~In("payDerivationPath", subject)
    /\ ~In("ordDerivationPath", subject)

GuardsRan == "guards" \in verdict.ran

C14_VaultDetection ==
    (GuardsRan /\ In("encryptedVault", subject)) =>
        /\ "Vault" \in verdict.guards
        /\ verdict.type = "Vault"
        /\ verdict.guards = {"Vault"}

\* C15: the payload check of encryptBackup accepts an object exactly when
\* decryptData, given the JSON of that object as the plaintext, returns it
\* instead of throwing 'Invalid backup structure after JSON parse.'.
C15_SharedRuleTable ==
    ({"validate", "classify"} \subseteq verdict.ran) =>
        (verdict.valid <=> verdict.known)

(***************************************************************************)
(* Repeated calls.                                                         *)
(***************************************************************************)
\* The salt and the IV an encoded backup begins with.
SaltIn(str) == SubSeq(toArray(str), 1, SALT_LENGTH_BYTES)
IvIn(str) == SubSeq(toArray(str), SALT_LENGTH_BYTES + 1,
                    SALT_LENGTH_BYTES + IV_LENGTH_BYTES)

\* C16: every call of encryptBackup that returns has drawn twice from the
\* random source, once for a 16-byte salt and once for a 12-byte IV; any two
\* calls of one process differ in their salt, in their IV and so in the
\* string they return, also when payload, passphrase and iteration count are
\* the same.
C16_Freshness ==
    /\ (enc.pc = "done" /\ enc.error = NoError) => ops.random = 2
    /\ \A i \in 1..Len(issued) :
          /\ Len(SaltIn(issued[i].encoded)) = 16
          /\ Len(IvIn(issued[i].encoded)) = 12
          /\ \A b \in Range(SaltIn(issued[i].encoded))
                    \cup Range(IvIn(issued[i].encoded)) : DOMAIN b = {"rnd"}
          /\ SaltIn(issued[i].encoded) # IvIn(issued[i].encoded)
    /\ \A i, j \in 1..Len(issued) :
          i < j =>
            /\ SaltIn(issued[i].encoded) # SaltIn(issued[j].encoded)
            /\ IvIn(issued[i].encoded) # IvIn(issued[j].encoded)
            /\ issued[i].encoded # issued[j].encoded

\* encryptBackup has returned twice for the same payload, passphrase and
\* iteration count.
C16_Witness ==
    /\ Len(issued) = 2
    /\ issued[1].payload = issued[2].payload
    /\ issued[1].passphrase = issued[2].passphrase
    /\ issued[1].iterations = issued[2].iterations

(***************************************************************************)
(* decryptBackup's own checks.                                             *)
(***************************************************************************)
\* A non-empty string, as an encoded backup and as a passphrase.
IsNonEmptyEncoded(x) == x.t = "string" /\ x.chars # <<>>
IsNonEmptyPassphrase(x) == x.t = "string" /\ x.v # ""

\* The call at hand threw error and did nothing else: nothing was decoded or
\* sliced, nothing written to the console, no key derived, no decryption
\* attempted.
ThrewAtOnce(error) ==
    /\ dec.pc = "done"
    /\ dec.outcome = "threw"
    /\ dec.error = error
    /\ dec.salt = DecIdle.salt
    /\ dec.iv = DecIdle.iv
    /\ dec.encryptedCiphertext = DecIdle.encryptedCiphertext
    /\ dec.i = 0
    /\ console = <<>>
    /\ ops = NoOps

\* C17: a decryptBackup call whose encoded argument is not a non-empty string
\* throws 'Invalid encryptedString: Must be a non-empty string.', and a call
\* whose encoded argument is a non-empty string and whose passphrase is not a
\* non-empty string throws 'Invalid passphrase: Passphrase must be a
\* non-empty string.'; either way before anything is decoded, derived or
\* decrypted.  (When both arguments are bad the first check decides.)
C17_DecryptValidation ==
    (dec.entry = "decryptBackup" /\ dec.pc # "idle") =>
        /\ ~IsNonEmptyEncoded(dec.encryptedString)
              => ThrewAtOnce(Error("Invalid encryptedString: Must be a non-empty string."))
        /\ (IsNonEmptyEncoded(dec.encryptedString) /\ ~IsNonEmptyPassphrase(dec.passphrase))
              => ThrewAtOnce(Error("Invalid passphrase: Passphrase must be a non-empty string."))

\* decryptBackup was given a backup that encryptBackup returned and the
\* number 12345 as its passphrase.
C17_Witness ==
    /\ dec.entry = "decryptBackup"
    /\ dec.pc = "done"
    /\ Intact
    /\ IsNonEmptyEncoded(dec.encryptedString)
    /\ dec.passphrase = N("12345")
    /\ dec.outcome = "threw"

(***************************************************************************)
(* The upg command.                                                        *)
(***************************************************************************)
\* The value upg's decryptBackup call returned, with createdAt added when it
\* had none.
UpgExpected ==
    LET o == upg.decrypted.value.o IN
    IF In("createdAt", o) THEN Obj(o)
    ELSE Obj([k \in DOMAIN o \cup {"createdAt"} |->
                 IF k = "createdAt" THEN upg.reread.value.o["createdAt"] ELSE o[k]])

\* C18: whenever the decryptBackup call of upg (password P, default
\* candidates) returns, upg exits with code 0 after one encryptBackup call and
\* writes a file that decryptBackup opens with P and the recommended count
\* alone, returning the fields and values that were decrypted, with
\* createdAt added only if there was none.
C18_Upgrade ==
    (upg.pc # "idle" /\ upg.decrypted.outcome = "returned") =>
        /\ upg.reencrypted
        /\ upg.exitCode = 0
        /\ upg.report = <<>>
        /\ upg.output # <<>>
        /\ upg.pc = "reread" =>
              /\ upg.reread.outcome = "returned"
              /\ "createdAt" \in DOMAIN upg.reread.value.o
              /\ upg.reread.value = UpgExpected

(***************************************************************************)
(* The framing.                                                            *)
(***************************************************************************)
\* The tag byte of an encoded backup that binds key, IV and plaintext.
BindingIn(str) == toArray(str)[Len(str) - GCM_TAG_LENGTH_BYTES + 1]

\* C19: the string encryptBackup returns is base64 of 16 salt bytes, then 12
\* IV bytes, then one ciphertext byte per plaintext byte and the 16 tag bytes,
\* and of nothing else; the salt and the IV are the ones the key was derived
\* from and the plaintext encrypted under.  decryptData takes bytes 0-15 as
\* salt, bytes 16-27 as IV and the rest as ciphertext, so for an untouched
\* backup it works with the salt and IV of the encryption.
C19_BinaryLayout ==
    /\ (Intact /\ encoded # <<>>) =>
          LET bytes == toArray(encoded)
              n == Len(bytes)
              binding == BindingIn(encoded)
          IN  /\ IsBase64(encoded)
              /\ Len(encoded) = n
              /\ n = 16 + 12 + Len(binding.data) + 16
              /\ \A j \in 1..28 : DOMAIN bytes[j] = {"rnd"}
              /\ \A j \in 29..(n - 16) : DOMAIN bytes[j] = {"ct", "at"}
              /\ \A j \in (n - 14)..n : DOMAIN bytes[j] = {"tag"}
              /\ SubSeq(bytes, 1, 16) = binding.key.salt
              /\ SubSeq(bytes, 17, 28) = binding.iv
              /\ binding.key.pw = origin.passphrase
              /\ binding.key.iterations = origin.iterations
    /\ LoopEntered =>
          LET bytes == toArray(encoded) IN
          /\ dec.salt = SubSeq(bytes, 1, 16)
          /\ dec.iv = SubSeq(bytes, 17, 28)
          /\ dec.encryptedCiphertext = SubSeq(bytes, 29, Len(bytes))
          /\ Intact => /\ dec.salt = BindingIn(encoded).key.salt
                       /\ dec.iv = BindingIn(encoded).iv

\* An untouched backup has been decrypted.
C19_Witness ==
    /\ Intact
    /\ LoopEntered
    /\ Finished
    /\ dec.outcome = "returned"
    /\ Len(dec.salt) = 16
    /\ Len(dec.iv) = 12

(***************************************************************************)
(* The retry loop.                                                         *)
(***************************************************************************)
\* C20: at every point of a decrypt call the attempts made so far are the
\* first candidates of the list, in list order, one key derivation and one
\* decryption each; every attempt but the last one made ended in an
\* authentication failure, and while the loop is running so did the last; an
\* attempt that succeeded or threw is the last one and ends the call.  So for
\* an untouched backup and its passphrase nothing is derived or decrypted for
\* a candidate after the first one that equals the count of the encryption.
C20_SequentialRetry ==
    LET list == CandidateList(dec.attemptIterations)
        made == Len(ops.attempts)
    IN  LoopEntered =>
          /\ made <= Len(list)
          /\ \A j \in 1..made : ops.attempts[j].iterations = list[j]
          /\ ops.derive = made
          /\ ops.decrypt = made
          /\ \A j \in 1..(made - 1) : ops.attempts[j].kind = "continue"
          /\ dec.pc = "loop" =>
                /\ made = dec.i - 1
                /\ \A j \in 1..made : ops.attempts[j].kind = "continue"
          /\ (made > 0 /\ ops.attempts[made].kind # "continue") =>
                /\ Finished
                /\ dec.outcome = IF ops.attempts[made].kind = "return"
                                 THEN "returned" ELSE "threw"
          /\ (Intact /\ SamePassphrase) =>
                \A j \in 1..Len(list) :
                    list[j] = origin.iterations => made <= j

\* A call with two candidates returned after its first attempt and left the
\* second candidate untried.
C20_Witness ==
    /\ Finished
    /\ dec.outcome = "returned"
    /\ Len(CandidateList(dec.attemptIterations)) = 2
    /\ Len(ops.attempts) = 1
    /\ ops.derive = 1

(***************************************************************************)
(* Errors inside the loop.                                                 *)
(***************************************************************************)
\* The attempts of the call at hand that did not end in a DOMException named
\* OperationError and did not return.
ThrowingAttempts == {j \in 1..Len(ops.attempts) : ops.attempts[j].kind = "throw"}

\* The attempts of the call at hand for a count that deriveKey rejects with
\* a TypeError.
BadCountAttempts == {j \in 1..Len(ops.attempts) : ops.attempts[j].iterations < 0}

\* C21: when the attempt for a candidate fails with an error that is no
\* DOMException named OperationError (here the TypeError deriveKey throws for
\* the count -1), the call ends at once by throwing that very error: no
\* later candidate is tried, nothing is written to the console and the error
\* is not 'Decryption failed: Invalid passphrase or corrupted data ...'.
C21_UnexpectedErrors ==
    /\ \A j \in BadCountAttempts :
          /\ j = Len(ops.attempts)
          /\ Finished
          /\ dec.outcome = "threw"
          /\ dec.error = RangeTypeError
          /\ ops.derive = j
          /\ console = <<>>
    /\ \A j \in ThrowingAttempts :
          /\ j = Len(ops.attempts)
          /\ Finished
          /\ dec.outcome = "threw"
          /\ dec.error # DecryptionFailed
          /\ dec.error.class # "DOMException"

\* A call with the candidates <<-1, recommended>> for a backup made with the
\* recommended count and its passphrase has ended.
C21_Witness ==
    /\ Finished
    /\ Intact
    /\ SamePassphrase
    /\ origin.iterations = RECOMMENDED_PBKDF2_ITERATIONS
    /\ dec.iterationCountsToTry = <<-1, RECOMMENDED_PBKDF2_ITERATIONS>>
    /\ dec.error = RangeTypeError

(***************************************************************************)
(* Plaintexts that are JSON but no backup.                                 *)
(***************************************************************************)
\* The first place of a count in a candidate list, 0 when it is not there.
FirstIndex(list, n) ==
    IF \E j \in 1..Len(list) : list[j] = n
    THEN CHOOSE j \in 1..Len(list) :
            list[j] = n /\ \A k \in 1..(j - 1) : list[k] # n
    ELSE 0

\* The call at hand is a decryption of an untouched backup made elsewhere,
\* with its passphrase and with candidates that hold its count.
OpensForeign ==
    /\ Finished
    /\ EngineRan
    /\ origin.kind = "foreign"
    /\ origin.tamper = "none"
    /\ SamePassphrase
    /\ origin.iterations \in Candidates

\* The call at hand ended by throwing the structure error in the attempt for
\* the first candidate that equals the backup's count: no candidate after it
\* was tried and the console is empty.
ThrewInvalidStructure ==
    LET made == Len(ops.attempts) IN
    /\ dec.outcome = "threw"
    /\ dec.error = Error("Invalid backup structure after JSON parse.")
    /\ dec.value = Undefined
    /\ made = FirstIndex(CandidateList(dec.attemptIterations), origin.iterations)
    /\ ops.attempts[made] = [iterations |-> origin.iterations, kind |-> "throw"]
    /\ ops.derive = made
    /\ console = <<>>

C23_ValidationOrder ==
    ( /\ enc.pc = "done"
      /\ ~IsProperPassphrase(enc.passphrase)
      /\ MatchesNoVariant(enc.payload) )
    => /\ enc.error \in InvalidPassphraseErrors
       /\ enc.error # InvalidPayload

(***************************************************************************)
(* One variant per object.                                                 *)
(***************************************************************************)
\* C24: no object passes two of the eight guards, and an object that the
\* payload check of encryptBackup accepts passes exactly one, whose name is
\* what getBackupType returns.
C24_ExactlyOneVariant ==
    GuardsRan =>
        /\ Cardinality(verdict.guards) <= 1
        /\ ("validate" \in verdict.ran /\ verdict.valid) =>
              /\ Cardinality(verdict.guards) = 1
              /\ verdict.guards = {verdict.type}

\* The object holds payPk, ordPk and a derivation marker, and none of wif,
\* xprv, rootPk, encryptedVault, chromeStorage.
HasDerivationMarker ==
    /\ In("payPk", subject) /\ In("ordPk", subject)
    /\ DOMAIN subject \cap {"wif", "xprv", "rootPk", "encryptedVault", "chromeStorage"} = {}
    /\ DOMAIN subject \cap {"mnemonic", "payDerivationPath", "ordDerivationPath"} # {}

\* C25: an object with payPk, ordPk and at least one of mnemonic,
\* payDerivationPath, ordDerivationPath, and none of wif, xprv, rootPk,
\* encryptedVault, chromeStorage, fails isOneSatBackup and is named
\* 'YoursWallet' by getBackupType, with or without identityPk.
C25_DerivationMarker ==
    (GuardsRan /\ HasDerivationMarker) =>
        /\ "OneSat" \notin verdict.guards
        /\ verdict.type = "YoursWallet"

\* C28: every object the payload check of encryptBackup accepts is one that
\* decryptData, finding its JSON as the plaintext, returns: it does not throw
\* 'Invalid backup structure after JSON parse.' for it.
C28_AcceptedIsDecryptable ==
    ({"validate", "classify"} \subseteq verdict.ran /\ verdict.valid)
        => verdict.known

\* An accepted object that passes no guard, {wif, id, xprv}, was classified.
C28_Witness ==
    /\ {"validate", "classify"} \subseteq verdict.ran
    /\ DOMAIN subject = {"wif", "id", "xprv"}
    /\ verdict.valid
    /\ verdict.known

C29_NoSecretLogged ==
    /\ enc.pc = "done" => console = <<>>
    /\ Len(console) <= 1
    /\ \A j \in 1..Len(console) :
          /\ \/ /\ console[j].text = "Failed to decode base64 string (toArray threw):"
                /\ console[j].arg = Error("Invalid base64")
             \/ /\ console[j].text = "All decryption attempts failed. Last error:"
                /\ console[j].arg \in {OperationError, NoError}
          /\ DOMAIN console[j] = {"text", "arg"}
          /\ DOMAIN console[j].arg = {"class", "name", "message"}
          /\ console[j].arg # dec.passphrase
          /\ dec.passphrase.t = "string" => console[j].arg.message # dec.passphrase.v
    /\ (Finished /\ dec.outcome = "returned") => console = <<>>

\* Every attempt on an untouched backup failed under a wrong passphrase, and
\* the last error was written to the console.
C29_Witness ==
    /\ Finished
    /\ Intact
    /\ ~SamePassphrase
    /\ Len(ops.attempts) = 2
    /\ console = <<[text |-> "All decryption attempts failed. Last error:",
                    arg |-> OperationError]>>

(***************************************************************************)
(* Plaintexts that are JSON but no object.                                 *)
(***************************************************************************)
\* C30: when the plaintext of an authenticated decryption is the JSON of a
\* number, a string, true, null or an array, the call throws 'Invalid backup
\* structure after JSON parse.' in that attempt and returns nothing: a raw
\* secret made of digits only does not come back as {wif: <the digits>}.
C30_FallbackOnlyOnSyntaxError ==
    ( /\ OpensForeign
      /\ Len(origin.text) = 1
      /\ origin.text[1].lex = "literal" )
    => /\ ThrewInvalidStructure
       /\ dec.outcome # "returned"
       /\ dec.value # Obj([wif |-> S(Spell(origin.text))])

\* The text 12345, encrypted with the legacy count, was decrypted under the
\* default candidates.
C30_Witness ==
    /\ OpensForeign
    /\ origin.text = <<Literal(N("12345"))>>
    /\ origin.iterations = LEGACY_PBKDF2_ITERATIONS
    /\ dec.attemptIterations = Undefined
    /\ Len(ops.attempts) = 2
    /\ dec.error = InvalidStructure

(***************************************************************************)
(* Invocations in flight at once.                                          *)
(***************************************************************************)
\* What the invocation with the locals v ends with when it is the only one:
\* the whole call, made with v's arguments and, for an encryption, v's own
\* draws from the random source.
Alone(v) ==
    IF v.kind = "encrypt"
    THEN IF EncryptBackupError(v.payload, v.passphrase) # NoError
         THEN Threw(EncryptBackupError(v.payload, v.passphrase))
         ELSE Returned(Str64(encryptData(v.payload, v.passphrase, v.iterations,
                                         SaltDraw(v.entropy), IvDraw(v.entropy),
                                         v.now)))
    ELSE decryptBackup(v.call.encryptedString, v.call.passphrase,
                       v.call.attemptIterations, v.strict)

\* C27: whatever the interleaving of the steps of the invocations in flight,
\* and whatever calls failed before, an invocation that has ended has ended
\* with what the same call ends with when it runs alone: the same payload,
\* the same error, or the encoded string of its own salt and IV.
C27_IndependentCalls ==
    \A c \in 1..MaxInFlight :
        calls.inv[c].at = "done" => calls.inv[c].result = Alone(calls.inv[c])

\* After a call that failed, an encryption and a decryption of a stored
\* backup were in flight together, and both have ended by returning.
C27_Witness ==
    /\ calls.failed
    /\ \E c, d \in 1..MaxInFlight :
        /\ calls.inv[c].kind = "encrypt"
        /\ calls.inv[d].kind = "decrypt"
        /\ calls.inv[c].at = "done" /\ calls.inv[d].at = "done"
        /\ calls.inv[c].overlapped /\ calls.inv[d].overlapped
        /\ calls.inv[c].result.outcome = "returned"
        /\ calls.inv[d].result.outcome = "returned"

====
